---- MODULE Spec2Model ----
(***************************************************************************)
(* Browzer extensions-framework: the workflow execution engine.            *)
(*                                                                         *)
(*   core/workflow_executor.py            cold strategy, one process/step  *)
(*   core/optimized_workflow_executor.py  warm-pooled strategy             *)
(*                                                                         *)
(* Callers are threads that each run execute_sequential_workflow; the      *)
(* callers of the warm strategy share one OptimizedWorkflowExecutor and    *)
(* therefore its warm_processes pool.  Python dicts are functions from a   *)
(* set of key strings; values are strings.                                 *)
(***************************************************************************)
EXTENDS Integers, Sequences, FiniteSets, TLC

VARIABLES
    strategy,        \* caller -> "cold" | "warm": the executor class it calls
    steps,           \* caller -> the steps argument (sequence of extension ids)
    data,            \* caller -> the data argument (original workflow input)
    current_data,    \* caller -> local current_data
    results,         \* caller -> local results (sequence of StepResult)
    events,          \* caller -> events handed to _emit_progress, in order
    pc,              \* caller -> position in execute_sequential_workflow
    i,               \* caller -> loop index of the for loop
    process,         \* caller -> ExtensionProcess borrowed / cold Popen pid (0: none)
    ret,             \* caller -> returned dict (NoReturn while running)
    warm_processes,  \* extension id -> ExtensionProcess object id (0: not in pool)
    objs,            \* ExtensionProcess objects: [ext, process, is_busy]
    procs,           \* OS processes ever started: [ext, state, kind]
    repertoire,      \* the response objects the installed workers can write
    faults,          \* whether processes may fail to start, die or hang in this run
    requests,        \* caller -> the requests it wrote to worker processes, in order
    rt               \* the router process in front of the executor (NoRouter: none)

vars == << strategy, steps, data, current_data, results, events, pc, i,
           process, ret, warm_processes, objs, procs, repertoire, faults, requests,
           rt >>

----------------------------------------------------------------------------
(* Bounds of the model *)

\* longest pipeline handed to a sequential run
MaxSteps == 3
\* longest pipeline of each of the concurrent callers of the warm pool
MaxPoolSteps == 1

Callers == {"w1", "w2"}

\* extension ids the registry resolves to a script, and one it does not
Registered == {"ext_a", "ext_b"}
ExtIds == Registered \cup {"ext_missing"}

----------------------------------------------------------------------------
(* Python dicts *)

EmptyDict == [k \in {} |-> ""]

Get(d, k, dflt) == IF k \in DOMAIN d THEN d[k] ELSE dflt

\* {**a, **b}
DictMerge(a, b) ==
    [k \in (DOMAIN a) \cup (DOMAIN b) |-> IF k \in DOMAIN b THEN b[k] ELSE a[k]]

AmbientKeys ==
    {"browserApiKeys", "selectedProvider", "selectedModel", "isQuestion",
     "conversationHistory"}

\* the defaults of the data.get(...) calls that build preserved_data
AmbientDefault(k) ==
    CASE k = "browserApiKeys" -> "{}"
      [] k = "selectedProvider" -> "anthropic"
      [] k = "selectedModel" -> "claude-3-7-sonnet-latest"
      [] k = "isQuestion" -> "False"
      [] k = "conversationHistory" -> "[]"

PreservedData(d) == [k \in AmbientKeys |-> Get(d, k, AmbientDefault(k))]

\* MergeStepResult without preserved_data: the step output alone is carried on
MergeStepResult_OutputOnly(d, out) == out

\* MergeStepResult merging the step output into the whole workflow input
MergeStepResult_KeepsInput(d, out) == DictMerge(d, out)

\* current_data = {**preserved_data, **step_result.data}, then the query update
MergeStepResult(d, out) ==
    LET merged == DictMerge(PreservedData(d), out)
    IN  IF "query" \in DOMAIN out
        THEN [merged EXCEPT !["query"] = out["query"]]
        ELSE merged

----------------------------------------------------------------------------
(* Inputs and worker behaviour *)

DataFull ==
    ("browserApiKeys" :> "user_keys" @@ "selectedProvider" :> "openai" @@
     "selectedModel" :> "gpt-4o" @@ "isQuestion" :> "True" @@
     "conversationHistory" :> "user_history" @@
     "query" :> "user_query" @@ "pageContent" :> "user_page")

DataPartial == ("browserApiKeys" :> "user_keys" @@ "query" :> "user_query")

InitialDatas == {DataFull, DataPartial}

\* payloads a worker may put in the data field of its response
OutPlain == ("result" :> "worker_result")
OutRevised == ("query" :> "worker_query" @@ "pageContent" :> "worker_page")
OutAmbient == ("browserApiKeys" :> "worker_keys" @@ "result" :> "worker_result")

StepOutputs == {OutPlain, OutRevised, OutAmbient}

\* response dicts of a worker that answers with a JSON object
WorkerResponses ==
    {("success" :> TRUE @@ "data" :> o) : o \in StepOutputs}
    \cup {("success" :> TRUE)}
    \cup {("success" :> FALSE @@ "error" :> "worker error")}
    \cup {("error" :> "no success field")}

\* the responses of workers whose payload is always the same
PoolResponses ==
    {("success" :> TRUE @@ "data" :> OutPlain),
     ("success" :> FALSE @@ "error" :> "worker error")}

RECURSIVE SeqsUpTo(_, _)
SeqsUpTo(S, n) ==
    IF n = 0 THEN {<< >>}
    ELSE LET shorter == SeqsUpTo(S, n - 1)
         IN  shorter \cup {Append(s, x) : s \in {t \in shorter : Len(t) = n - 1}, x \in S}

\* the value of rt when execute_sequential_workflow is called directly
NoRouter == [kind |-> "none"]

NoReturn == [running |-> TRUE]

----------------------------------------------------------------------------
(* dataclass StepResult, and the progress events *)

StepResult(ext, success, d, err) ==
    [extension_id |-> ext, success |-> success, data |-> d, error |-> err]

\* tail of _execute_step / _execute_step_optimized: result dict -> StepResult
ToStepResult(ext, result) ==
    IF Get(result, "success", FALSE)
    THEN StepResult(ext, TRUE, Get(result, "data", EmptyDict), "None")
    ELSE StepResult(ext, FALSE, EmptyDict, Get(result, "error", "Unknown error"))

Failure(err) == ("success" :> FALSE @@ "error" :> err)

WorkflowError(ext, err) == << "Step", ext, "failed:", err >>

----------------------------------------------------------------------------
(* execute_sequential_workflow: the loop shared by both executors *)

Emit(w, evs) == events' = [events EXCEPT ![w] = events[w] \o evs]

CurrentExt(w) == steps[w][i[w] + 1]

\* ColdAfterStep without the step_complete event of a successful step
ColdAfterStep_NoCompleteEvent(w, sr) ==
    LET ext == CurrentExt(w)
        newResults == Append(results[w], sr)
    IN  /\ results' = [results EXCEPT ![w] = newResults]
        /\ IF ~sr.success
           THEN /\ Emit(w, << [type |-> "step_complete", current_step |-> i[w],
                               step_status |-> "failed", step_error |-> sr.error],
                              [type |-> "workflow_error",
                               error |-> WorkflowError(ext, sr.error),
                               failed_at_step |-> i[w]] >>)
                /\ ret' = [ret EXCEPT ![w] =
                              [success |-> FALSE,
                               error |-> WorkflowError(ext, sr.error),
                               results |-> newResults]]
                /\ pc' = [pc EXCEPT ![w] = "done"]
                /\ UNCHANGED << current_data, i >>
           ELSE /\ UNCHANGED events
                /\ current_data' = [current_data EXCEPT ![w] =
                                       MergeStepResult(data[w], sr.data)]
                /\ i' = [i EXCEPT ![w] = i[w] + 1]
                /\ pc' = [pc EXCEPT ![w] = "loop"]
                /\ UNCHANGED ret

\* WorkflowExecutor.execute_sequential_workflow after _execute_step returned
\* step_result: results.append, the step_complete event, then either the
\* workflow_error event and the failure return, or the context merge.
ColdAfterStep(w, sr) ==
    LET ext == CurrentExt(w)
        newResults == Append(results[w], sr)
    IN  /\ results' = [results EXCEPT ![w] = newResults]
        /\ IF ~sr.success
           THEN /\ Emit(w, << [type |-> "step_complete", current_step |-> i[w],
                               step_status |-> "failed", step_error |-> sr.error],
                              [type |-> "workflow_error",
                               error |-> WorkflowError(ext, sr.error),
                               failed_at_step |-> i[w]] >>)
                /\ ret' = [ret EXCEPT ![w] =
                              [success |-> FALSE,
                               error |-> WorkflowError(ext, sr.error),
                               results |-> newResults]]
                /\ pc' = [pc EXCEPT ![w] = "done"]
                /\ UNCHANGED << current_data, i >>
           ELSE /\ Emit(w, << [type |-> "step_complete", current_step |-> i[w],
                               step_status |-> "completed",
                               step_result |-> sr.data] >>)
                /\ current_data' = [current_data EXCEPT ![w] =
                                       MergeStepResult(data[w], sr.data)]
                /\ i' = [i EXCEPT ![w] = i[w] + 1]
                /\ pc' = [pc EXCEPT ![w] = "loop"]
                /\ UNCHANGED ret

\* WarmAfterStep whose failure branch does not return: the loop goes on
WarmAfterStep_ContinuesAfterFailure(w, sr) ==
    LET newResults == Append(results[w], sr)
    IN  /\ results' = [results EXCEPT ![w] = newResults]
        /\ Emit(w, << [type |-> "step_complete", current_step |-> i[w],
                       step_status |-> IF sr.success THEN "completed" ELSE "failed"] >>)
        /\ current_data' = [current_data EXCEPT ![w] =
                               MergeStepResult(data[w], sr.data)]
        /\ i' = [i EXCEPT ![w] = i[w] + 1]
        /\ pc' = [pc EXCEPT ![w] = "loop"]
        /\ UNCHANGED ret

\* OptimizedWorkflowExecutor.execute_sequential_workflow after
\* _execute_step_optimized returned step_result: as above, but the failure
\* branch returns right after the step_complete event.
WarmAfterStep(w, sr) ==
    LET ext == CurrentExt(w)
        newResults == Append(results[w], sr)
    IN  /\ results' = [results EXCEPT ![w] = newResults]
        /\ IF ~sr.success
           THEN /\ Emit(w, << [type |-> "step_complete", current_step |-> i[w],
                               step_status |-> "failed", step_error |-> sr.error] >>)
                /\ ret' = [ret EXCEPT ![w] =
                              [success |-> FALSE,
                               error |-> WorkflowError(ext, sr.error),
                               results |-> newResults]]
                /\ pc' = [pc EXCEPT ![w] = "done"]
                /\ UNCHANGED << current_data, i >>
           ELSE /\ Emit(w, << [type |-> "step_complete", current_step |-> i[w],
                               step_status |-> "completed",
                               step_result |-> sr.data] >>)
                /\ current_data' = [current_data EXCEPT ![w] =
                                       MergeStepResult(data[w], sr.data)]
                /\ i' = [i EXCEPT ![w] = i[w] + 1]
                /\ pc' = [pc EXCEPT ![w] = "loop"]
                /\ UNCHANGED ret

\* entry of execute_sequential_workflow up to the for loop
WorkflowStart(w) ==
    /\ pc[w] = "start"
    /\ Emit(w, << [type |-> "workflow_start", total_steps |-> Len(steps[w])] >>)
    /\ current_data' = [current_data EXCEPT ![w] = data[w]]
    /\ results' = [results EXCEPT ![w] = << >>]
    /\ i' = [i EXCEPT ![w] = 0]
    /\ pc' = [pc EXCEPT ![w] = "loop"]
    /\ UNCHANGED << rt, strategy, steps, data, process, ret, warm_processes, objs, procs, repertoire, faults, requests >>

\* head of one loop iteration: the step_start event
StepStart(w) ==
    /\ pc[w] = "loop"
    /\ i[w] < Len(steps[w])
    /\ Emit(w, << [type |-> "step_start", current_step |-> i[w],
                   step_status |-> "running", extension_id |-> CurrentExt(w)] >>)
    /\ pc' = [pc EXCEPT ![w] = "step"]
    /\ UNCHANGED << rt, strategy, steps, data, current_data, results, i, process, ret,
                    warm_processes, objs, procs, repertoire, faults, requests >>

\* loop exhausted: workflow_complete and the success return
WorkflowComplete(w) ==
    /\ pc[w] = "loop"
    /\ i[w] = Len(steps[w])
    /\ Emit(w, << [type |-> "workflow_complete", result |-> current_data[w],
                   total_steps |-> Len(steps[w])] >>)
    /\ ret' = [ret EXCEPT ![w] = [success |-> TRUE,
                                  final_result |-> current_data[w],
                                  results |-> results[w]]]
    /\ pc' = [pc EXCEPT ![w] = "done"]
    /\ UNCHANGED << rt, strategy, steps, data, current_data, results, i, process,
                    warm_processes, objs, procs, repertoire, faults, requests >>

----------------------------------------------------------------------------
(* The request written to a worker *)

\* ColdRequest whose query is read from the original workflow input
ColdRequest_OriginalQuery(w) ==
    LET d == current_data[w]
    IN  [context |->
            [browser_api_keys |-> Get(d, "browserApiKeys", "{}"),
             selected_provider |-> Get(d, "selectedProvider", "anthropic"),
             selected_model |-> Get(d, "selectedModel", "claude-3-7-sonnet-latest")],
         action |-> "process_page",
         data |->
            [query |-> Get(data[w], "query", ""),
             pageContent |-> Get(d, "pageContent", "None"),
             isQuestion |-> Get(d, "isQuestion", "False"),
             conversationHistory |-> Get(d, "conversationHistory", "[]")],
         workflow_context |->
            [step_number |-> i[w] + 1,
             total_steps |-> Len(steps[w]),
             is_workflow |-> Len(steps[w]) > 1,
             extension_id |-> CurrentExt(w)]]

\* WorkflowExecutor._build_input_data and the json.dumps of _run_extension
ColdRequest(w) ==
    LET d == current_data[w]
    IN  [context |->
            [browser_api_keys |-> Get(d, "browserApiKeys", "{}"),
             selected_provider |-> Get(d, "selectedProvider", "anthropic"),
             selected_model |-> Get(d, "selectedModel", "claude-3-7-sonnet-latest")],
         action |-> "process_page",
         data |->
            [query |-> Get(d, "query", ""),
             pageContent |-> Get(d, "pageContent", "None"),
             isQuestion |-> Get(d, "isQuestion", "False"),
             conversationHistory |-> Get(d, "conversationHistory", "[]")],
         workflow_context |->
            [step_number |-> i[w] + 1,
             total_steps |-> Len(steps[w]),
             is_workflow |-> Len(steps[w]) > 1,
             extension_id |-> CurrentExt(w)]]

\* OptimizedWorkflowExecutor._prepare_input_data_optimized (content below the
\* spool threshold)
WarmRequest(w) ==
    LET d == current_data[w]
    IN  [context |->
            [browser_api_keys |-> Get(d, "browserApiKeys", "{}"),
             selected_provider |-> Get(d, "selectedProvider", "anthropic"),
             selected_model |-> Get(d, "selectedModel", "claude-3-7-sonnet-latest")],
         action |-> "process_page",
         data |->
            [query |-> Get(d, "query", ""),
             pageContent |-> Get(d, "pageContent", ""),
             isQuestion |-> Get(d, "isQuestion", "False"),
             conversationHistory |-> Get(d, "conversationHistory", "[]")],
         workflow_context |->
            [step_number |-> i[w] + 1,
             total_steps |-> Len(steps[w]),
             is_workflow |-> Len(steps[w]) > 1,
             extension_id |-> CurrentExt(w)]]

----------------------------------------------------------------------------
(* Cold strategy: WorkflowExecutor._execute_step and _run_extension *)

\* what the worker wrote on stdout before it exited: nothing, text that is
\* not JSON, a JSON value that is not an object, one JSON response, or lines
\* of text around one JSON response (json.loads raises on all but "json" and
\* "json_non_object")
ColdStdouts ==
    {[kind |-> "empty"], [kind |-> "garbage"], [kind |-> "json_non_object"]}
    \cup {[kind |-> "json", value |-> r] : r \in repertoire}
    \cup {[kind |-> "text_and_json", value |-> r] : r \in repertoire}

\* ColdStepResult that reads the response on stdout whatever the exit code,
\* and finds the response among other text
ColdStepResult_SalvagesOutput(ext, returncode, stdout) ==
    IF stdout.kind \in {"json", "text_and_json"}
    THEN ToStepResult(ext, stdout.value)
    ELSE ToStepResult(ext, Failure("Extension failed: stderr"))

\* _run_extension after communicate() returned, and the tail of _execute_step
ColdStepResult(ext, returncode, stdout) ==
    IF returncode # 0 THEN ToStepResult(ext, Failure("Extension failed: stderr"))
    ELSE IF stdout.kind = "empty"
         THEN ToStepResult(ext, Failure("Extension returned empty output"))
    ELSE IF stdout.kind \in {"garbage", "text_and_json"}
         THEN ToStepResult(ext, Failure("Invalid JSON output"))
    ELSE IF stdout.kind = "json_non_object"
         THEN StepResult(ext, FALSE, EmptyDict, "object has no attribute get")
    ELSE ToStepResult(ext, stdout.value)

\* whether subprocess.Popen returns a process (TRUE) or raises (FALSE)
PopenOutcomes == IF faults THEN {TRUE, FALSE} ELSE {TRUE}

\* _find_extension_script, _build_input_data and subprocess.Popen
ColdStart(w) ==
    /\ pc[w] = "step"
    /\ strategy[w] = "cold"
    /\ LET ext == CurrentExt(w)
       IN  IF ext \notin Registered
           THEN /\ ColdAfterStep(w, StepResult(ext, FALSE, EmptyDict,
                                               "Extension script not found"))
                /\ UNCHANGED << process, procs, requests >>
           ELSE \E started \in PopenOutcomes :
                  IF started
                  THEN /\ procs' = Append(procs, [ext |-> ext, state |-> "alive",
                                                  kind |-> "cold"])
                       /\ process' = [process EXCEPT ![w] = Len(procs) + 1]
                       /\ requests' = [requests EXCEPT ![w] =
                                          Append(requests[w], ColdRequest(w))]
                       /\ pc' = [pc EXCEPT ![w] = "communicate"]
                       /\ UNCHANGED << current_data, results, events, i, ret >>
                  ELSE /\ ColdAfterStep(w, ToStepResult(ext, Failure("Execution failed")))
                       /\ UNCHANGED << process, procs, requests >>
    /\ UNCHANGED << rt, strategy, steps, data, warm_processes, objs, repertoire, faults >>

\* process.communicate(input=input_json, timeout=60) and what follows it
ColdCommunicate(w) ==
    /\ pc[w] = "communicate"
    /\ LET ext == CurrentExt(w)
           pid == process[w]
       IN  \/ \E returncode \in {0, 1}, stdout \in ColdStdouts :
                /\ procs' = [procs EXCEPT ![pid].state = "dead"]
                /\ ColdAfterStep(w, ColdStepResult(ext, returncode, stdout))
           \/ \* subprocess.TimeoutExpired: the handler only builds the error dict
              /\ procs' = procs
              /\ ColdAfterStep(w, ToStepResult(ext, Failure("Extension timed out")))
    /\ UNCHANGED << rt, strategy, steps, data, process, warm_processes, objs, repertoire, faults, requests >>

----------------------------------------------------------------------------
(* Warm-pooled strategy: ExtensionProcess and OptimizedWorkflowExecutor *)

\* self.process is set and self.process.poll() is None
Running(pid) == pid # 0 /\ procs[pid].state # "dead"

\* ExtensionProcess.is_healthy
is_healthy(o) == Running(objs[o].process)

\* GetOrCreateProcess that, replacing a pooled process, empties the rest of
\* the pool
GetOrCreateProcess_DropsPool(w) ==
    /\ pc[w] = "step"
    /\ strategy[w] = "warm"
    /\ LET ext == CurrentExt(w)
           pooled == warm_processes[ext]
       IN  IF pooled # 0 /\ is_healthy(pooled) /\ ~objs[pooled].is_busy
           THEN /\ process' = [process EXCEPT ![w] = pooled]
                /\ pc' = [pc EXCEPT ![w] = "execute"]
                /\ UNCHANGED << current_data, results, events, i, ret,
                                warm_processes, objs, procs >>
           ELSE IF ext \notin Registered
           THEN /\ WarmAfterStep(w, StepResult(ext, FALSE, EmptyDict,
                                               "Extension not found"))
                /\ UNCHANGED << process, warm_processes, objs, procs >>
           ELSE \E started \in PopenOutcomes :
                  /\ procs' = IF started
                              THEN Append(procs, [ext |-> ext, state |-> "alive",
                                                  kind |-> "warm"])
                              ELSE procs
                  /\ objs' = Append(objs, [ext |-> ext,
                                           process |-> IF started THEN Len(procs) + 1
                                                       ELSE 0,
                                           is_busy |-> FALSE])
                  /\ warm_processes' =
                        IF pooled # 0
                        THEN [e \in ExtIds |-> IF e = ext THEN Len(objs) + 1 ELSE 0]
                        ELSE [warm_processes EXCEPT ![ext] = Len(objs) + 1]
                  /\ process' = [process EXCEPT ![w] = Len(objs) + 1]
                  /\ pc' = [pc EXCEPT ![w] = "execute"]
                  /\ UNCHANGED << current_data, results, events, i, ret >>
    /\ UNCHANGED << rt, strategy, steps, data, repertoire, faults, requests >>

\* _execute_step_optimized up to process.execute: _get_or_create_process, whose
\* exception for an unregistered id is caught and becomes a failed StepResult.
\* ExtensionProcess.__init__ runs _start_process, where Popen may fail.
GetOrCreateProcess(w) ==
    /\ pc[w] = "step"
    /\ strategy[w] = "warm"
    /\ LET ext == CurrentExt(w)
           pooled == warm_processes[ext]
       IN  IF pooled # 0 /\ is_healthy(pooled) /\ ~objs[pooled].is_busy
           THEN /\ process' = [process EXCEPT ![w] = pooled]
                /\ pc' = [pc EXCEPT ![w] = "execute"]
                /\ UNCHANGED << current_data, results, events, i, ret,
                                warm_processes, objs, procs, repertoire, faults, requests >>
           ELSE IF ext \notin Registered
           THEN /\ WarmAfterStep(w, StepResult(ext, FALSE, EmptyDict,
                                               "Extension not found"))
                /\ UNCHANGED << process, warm_processes, objs, procs, repertoire, faults, requests >>
           ELSE \E started \in PopenOutcomes :
                  /\ procs' = IF started
                              THEN Append(procs, [ext |-> ext, state |-> "alive",
                                                  kind |-> "warm"])
                              ELSE procs
                  /\ objs' = Append(objs, [ext |-> ext,
                                           process |-> IF started THEN Len(procs) + 1
                                                       ELSE 0,
                                           is_busy |-> FALSE])
                  /\ warm_processes' = [warm_processes EXCEPT ![ext] = Len(objs) + 1]
                  /\ process' = [process EXCEPT ![w] = Len(objs) + 1]
                  /\ pc' = [pc EXCEPT ![w] = "execute"]
                  /\ UNCHANGED << current_data, results, events, i, ret >>
    /\ UNCHANGED << rt, strategy, steps, data, repertoire, faults, requests >>

\* ExtensionProcess.execute up to stdin.flush(): restart a dead process, give up
\* when it cannot be started, else set is_busy and write the request line.
ExecuteSend(w) ==
    /\ pc[w] = "execute"
    /\ LET o == process[w]
           ext == CurrentExt(w)
       IN  IF Running(objs[o].process)
           THEN /\ objs' = [objs EXCEPT ![o].is_busy = TRUE]
                /\ requests' = [requests EXCEPT ![w] =
                                   Append(requests[w], WarmRequest(w))]
                /\ pc' = [pc EXCEPT ![w] = "readline"]
                /\ UNCHANGED << current_data, results, events, i, ret, procs >>
           ELSE \E started \in PopenOutcomes :
                  IF started
                  THEN /\ procs' = Append(procs, [ext |-> objs[o].ext,
                                                  state |-> "alive", kind |-> "warm"])
                       /\ objs' = [objs EXCEPT ![o].process = Len(procs) + 1,
                                               ![o].is_busy = TRUE]
                       /\ requests' = [requests EXCEPT ![w] =
                                          Append(requests[w], WarmRequest(w))]
                       /\ pc' = [pc EXCEPT ![w] = "readline"]
                       /\ UNCHANGED << current_data, results, events, i, ret >>
                  ELSE /\ objs' = [objs EXCEPT ![o].process = 0]
                       /\ WarmAfterStep(w, ToStepResult(ext,
                              Failure("Failed to start extension process")))
                       /\ UNCHANGED << procs, requests >>
    /\ UNCHANGED << rt, strategy, steps, data, process, warm_processes, repertoire, faults >>

\* what stdout.readline() and json.loads make of a live worker's answer
WarmResults == repertoire \cup {Failure("Process execution failed")}

\* ExtensionProcess.execute from stdout.readline() on, with the finally clause,
\* and the tail of _execute_step_optimized.  readline() has no timeout: it
\* returns when the worker wrote a line or when its stdout reached end of file.
ExecuteRecv(w) ==
    /\ pc[w] = "readline"
    /\ LET o == process[w]
           ext == CurrentExt(w)
           pid == objs[o].process
       IN  /\ pid # 0 => procs[pid].state # "hung"
           /\ objs' = [objs EXCEPT ![o].is_busy = FALSE]
           /\ IF pid = 0
              THEN WarmAfterStep(w, ToStepResult(ext,
                                     Failure("Process execution failed")))
              ELSE IF procs[pid].state = "dead"
              THEN WarmAfterStep(w, ToStepResult(ext,
                                     Failure("Extension process returned no response")))
              ELSE \E result \in WarmResults :
                       WarmAfterStep(w, ToStepResult(ext, result))
    /\ UNCHANGED << rt, strategy, steps, data, process, warm_processes, procs, repertoire, faults, requests >>

----------------------------------------------------------------------------
(* The environment: worker processes *)

\* a pooled daemon exits or is killed from outside (the exit of a cold worker
\* is an outcome of ColdCommunicate)
ProcessDies(pid) ==
    /\ faults
    /\ procs[pid].state # "dead"
    /\ procs[pid].kind = "warm"
    /\ procs' = [procs EXCEPT ![pid].state = "dead"]
    /\ UNCHANGED << rt, strategy, steps, data, current_data, results, events, pc, i,
                    process, ret, warm_processes, objs, repertoire, faults, requests >>

\* a daemon that was sent a request stays alive but never answers it
WorkerHangs(pid) ==
    /\ faults
    /\ procs[pid].state = "alive"
    /\ procs[pid].kind = "warm"
    /\ \E w \in Callers : pc[w] = "readline" /\ objs[process[w]].process = pid
    /\ procs' = [procs EXCEPT ![pid].state = "hung"]
    /\ UNCHANGED << rt, strategy, steps, data, current_data, results, events, pc, i,
                    process, ret, warm_processes, objs, repertoire, faults, requests >>

----------------------------------------------------------------------------
(* Specifications *)

InitCommon ==
    /\ current_data = [w \in Callers |-> EmptyDict]
    /\ results = [w \in Callers |-> << >>]
    /\ events = [w \in Callers |-> << >>]
    /\ i = [w \in Callers |-> 0]
    /\ process = [w \in Callers |-> 0]
    /\ ret = [w \in Callers |-> NoReturn]
    /\ requests = [w \in Callers |-> << >>]
    /\ warm_processes = [e \in ExtIds |-> 0]
    /\ objs = << >>
    /\ procs = << >>

\* One caller runs a pipeline of up to MaxSteps steps on either executor; the
\* other thread calls nothing.  Either the workers answer with any of
\* WorkerResponses and every process starts and lives on, or they answer with
\* PoolResponses and processes may fail to start, die or hang.
Init ==
    /\ strategy \in [Callers -> {"cold", "warm"}]
    /\ strategy["w2"] = "warm"
    /\ steps \in [Callers -> SeqsUpTo(ExtIds, MaxSteps)]
    /\ steps["w2"] = << >>
    /\ data \in [Callers -> InitialDatas]
    /\ data["w2"] = DataFull
    /\ pc = [w \in Callers |-> IF w = "w1" THEN "start" ELSE "idle"]
    /\ \/ repertoire = WorkerResponses /\ faults = FALSE
       \/ repertoire = PoolResponses /\ faults = TRUE
    /\ rt = NoRouter
    /\ InitCommon

\* Two callers run pipelines of up to MaxPoolSteps registered steps
\* concurrently; those of the warm strategy share one OptimizedWorkflowExecutor.
PoolInit ==
    /\ strategy \in [Callers -> {"cold", "warm"}]
    /\ steps \in [Callers -> SeqsUpTo(Registered, MaxPoolSteps) \ {<< >>}]
    /\ data = [w \in Callers |-> DataFull]
    /\ pc = [w \in Callers |-> "start"]
    /\ repertoire = PoolResponses
    /\ faults = TRUE
    /\ rt = NoRouter
    /\ InitCommon

CallerStep(w) ==
    \/ WorkflowStart(w)
    \/ StepStart(w)
    \/ WorkflowComplete(w)
    \/ ColdStart(w)
    \/ ColdCommunicate(w)
    \/ GetOrCreateProcess(w)
    \/ ExecuteSend(w)
    \/ ExecuteRecv(w)

Next ==
    \/ \E w \in Callers : WorkflowStart(w)
    \/ \E w \in Callers : StepStart(w)
    \/ \E w \in Callers : WorkflowComplete(w)
    \/ \E w \in Callers : ColdStart(w)
    \/ \E w \in Callers : ColdCommunicate(w)
    \/ \E w \in Callers : GetOrCreateProcess(w)
    \/ \E w \in Callers : ExecuteSend(w)
    \/ \E w \in Callers : ExecuteRecv(w)
    \/ \E pid \in DOMAIN procs : ProcessDies(pid)
    \/ \E pid \in DOMAIN procs : WorkerHangs(pid)

Spec == Init /\ [][Next]_vars

PoolSpec == PoolInit /\ [][Next]_vars

\* every caller is a thread the scheduler keeps running; nothing obliges a
\* worker process to die or to hang
PoolFairSpec == PoolSpec /\ \A w \in Callers : WF_vars(CallerStep(w))

----------------------------------------------------------------------------
(* Python str values.  A str is the sequence of its blank-separated words;   *)
(* a word is a maximal run of \w characters (letters, digits, underscore).   *)
(* The relations between the words of the vocabulary are tabulated below.    *)

\* << a, b >>: a # b and the word a occurs inside the word b (a in b)
ProperSubstrings ==
    {<< "ai", "against" >>, << "ai", "detail" >>, << "ai", "detailed" >>,
     << "ai", "explain" >>, << "ai", "obtain" >>, << "analysis", "content_analysis" >>,
     << "analyz", "analyze" >>, << "content", "content_analysis" >>,
     << "detail", "detailed" >>, << "get", "get_weather" >>, << "in", "against" >>,
     << "in", "combine" >>, << "in", "examine" >>, << "in", "explain" >>,
     << "in", "find" >>, << "in", "investigate" >>, << "in", "investigation" >>,
     << "in", "join" >>, << "in", "obtain" >>, << "out", "layout" >>,
     << "page", "pages" >>, << "page", "process_page" >>,
     << "previous", "previous_step" >>, << "process", "process_page" >>,
     << "query", "user_query" >>, << "search", "research" >>,
     << "step", "previous_step" >>, << "summariz", "summarize" >>,
     << "then", "authenticate" >>, << "to", "stock" >>, << "to", "today" >>,
     << "user", "user_query" >>, << "weather", "get_weather" >>, << "word", "words" >>}

\* << a, b >>: a # b and b.startswith(a)
ProperPrefixes ==
    {<< "analyz", "analyze" >>, << "content", "content_analysis" >>,
     << "detail", "detailed" >>, << "get", "get_weather" >>, << "in", "investigate" >>,
     << "in", "investigation" >>, << "page", "pages" >>,
     << "previous", "previous_step" >>, << "process", "process_page" >>,
     << "summariz", "summarize" >>, << "to", "today" >>, << "user", "user_query" >>,
     << "word", "words" >>}

\* << a, b >>: a # b and b.endswith(a)
ProperSuffixes ==
    {<< "analysis", "content_analysis" >>, << "in", "explain" >>, << "in", "join" >>,
     << "in", "obtain" >>, << "out", "layout" >>, << "page", "process_page" >>,
     << "query", "user_query" >>, << "search", "research" >>,
     << "step", "previous_step" >>, << "weather", "get_weather" >>}

\* str.lower() of the words it changes
LowerTable ==
    ("Fallback" :> "fallback") @@
    ("Weather" :> "weather")

\* str.replace('_', ' ') of the words it changes, as words
UnderscoreParts ==
    ("content_analysis" :> << "content", "analysis" >>) @@
    ("get_weather" :> << "get", "weather" >>) @@
    ("previous_step" :> << "previous", "step" >>) @@
    ("process_page" :> << "process", "page" >>) @@
    ("user_query" :> << "user", "query" >>)

\* int() of the words that are all digits
IntOf ==
    ("40" :> 40) @@
    ("50" :> 50)

\* len() of each word
WordLength ==
    ("40" :> 2) @@
    ("50" :> 2) @@
    ("Fallback" :> 8) @@
    ("Weather" :> 7) @@
    ("abstract" :> 8) @@
    ("after" :> 5) @@
    ("against" :> 7) @@
    ("aggregate" :> 9) @@
    ("ai" :> 2) @@
    ("also" :> 4) @@
    ("analysis" :> 8) @@
    ("analyz" :> 6) @@
    ("analyze" :> 7) @@
    ("and" :> 3) @@
    ("any" :> 3) @@
    ("arrange" :> 7) @@
    ("assess" :> 6) @@
    ("authenticate" :> 12) @@
    ("brief" :> 5) @@
    ("btc" :> 3) @@
    ("build" :> 5) @@
    ("by" :> 2) @@
    ("check" :> 5) @@
    ("clarify" :> 7) @@
    ("collect" :> 7) @@
    ("combine" :> 7) @@
    ("compare" :> 7) @@
    ("compile" :> 7) @@
    ("comprehensive" :> 13) @@
    ("concise" :> 7) @@
    ("condense" :> 8) @@
    ("confirm" :> 7) @@
    ("construct" :> 9) @@
    ("content" :> 7) @@
    ("content_analysis" :> 16) @@
    ("contrast" :> 8) @@
    ("convert" :> 7) @@
    ("create" :> 6) @@
    ("data" :> 4) @@
    ("describe" :> 8) @@
    ("detail" :> 6) @@
    ("detailed" :> 8) @@
    ("difference" :> 10) @@
    ("discover" :> 8) @@
    ("elaborate" :> 9) @@
    ("evaluate" :> 8) @@
    ("examine" :> 7) @@
    ("explain" :> 7) @@
    ("explore" :> 7) @@
    ("extract" :> 7) @@
    ("fallback" :> 8) @@
    ("find" :> 4) @@
    ("followed" :> 8) @@
    ("forecasts" :> 9) @@
    ("format" :> 6) @@
    ("gather" :> 6) @@
    ("generate" :> 8) @@
    ("get" :> 3) @@
    ("get_weather" :> 11) @@
    ("hello" :> 5) @@
    ("help" :> 4) @@
    ("in" :> 2) @@
    ("investigate" :> 11) @@
    ("investigation" :> 13) @@
    ("join" :> 4) @@
    ("layout" :> 6) @@
    ("limit" :> 5) @@
    ("locate" :> 6) @@
    ("lookup" :> 6) @@
    ("make" :> 4) @@
    ("market" :> 6) @@
    ("max" :> 3) @@
    ("meanwhile" :> 9) @@
    ("merge" :> 5) @@
    ("next" :> 4) @@
    ("obtain" :> 6) @@
    ("organize" :> 8) @@
    ("other" :> 5) @@
    ("out" :> 3) @@
    ("page" :> 4) @@
    ("pages" :> 5) @@
    ("parse" :> 5) @@
    ("previous" :> 8) @@
    ("previous_step" :> 13) @@
    ("price" :> 5) @@
    ("process" :> 7) @@
    ("process_page" :> 12) @@
    ("produce" :> 7) @@
    ("prove" :> 5) @@
    ("pull" :> 4) @@
    ("query" :> 5) @@
    ("reports" :> 7) @@
    ("research" :> 8) @@
    ("retrieve" :> 8) @@
    ("review" :> 6) @@
    ("search" :> 6) @@
    ("seek" :> 4) @@
    ("shorten" :> 7) @@
    ("simple" :> 6) @@
    ("simplify" :> 8) @@
    ("simultaneously" :> 14) @@
    ("step" :> 4) @@
    ("stock" :> 5) @@
    ("structure" :> 9) @@
    ("study" :> 5) @@
    ("style" :> 5) @@
    ("subsequently" :> 12) @@
    ("summariz" :> 8) @@
    ("summarize" :> 9) @@
    ("summary" :> 7) @@
    ("that" :> 4) @@
    ("then" :> 4) @@
    ("there" :> 5) @@
    ("this" :> 4) @@
    ("to" :> 2) @@
    ("today" :> 5) @@
    ("translate" :> 9) @@
    ("under" :> 5) @@
    ("unknown" :> 7) @@
    ("user" :> 4) @@
    ("user_query" :> 10) @@
    ("utility" :> 7) @@
    ("validate" :> 8) @@
    ("verify" :> 6) @@
    ("versus" :> 6) @@
    ("vs" :> 2) @@
    ("weather" :> 7) @@
    ("with" :> 4) @@
    ("word" :> 4) @@
    ("words" :> 5)

\* str.lower() of one word
LowerWord(w) == IF w \in DOMAIN LowerTable THEN LowerTable[w] ELSE w

\* str.lower()
Lower(text) == [k \in DOMAIN text |-> LowerWord(text[k])]

\* the words str.replace('_', ' ') makes of one word
UnderscoreWords(w) == IF w \in DOMAIN UnderscoreParts THEN UnderscoreParts[w] ELSE << w >>

RECURSIVE ReplaceUnderscores(_)
\* str.replace('_', ' ')
ReplaceUnderscores(text) ==
    IF text = << >> THEN << >>
    ELSE UnderscoreWords(Head(text)) \o ReplaceUnderscores(Tail(text))

\* a in b, b.startswith(a), b.endswith(a) for single words
SubOf(a, b) == a = b \/ << a, b >> \in ProperSubstrings
PrefixOf(a, b) == a = b \/ << a, b >> \in ProperPrefixes
SuffixOf(a, b) == a = b \/ << a, b >> \in ProperSuffixes

\* needle in text
In(needle, text) ==
    LET n == Len(needle)
    IN  IF n = 0 THEN TRUE
        ELSE IF n = 1 THEN \E k \in DOMAIN text : SubOf(needle[1], text[k])
        ELSE \E k \in 1..(Len(text) - n + 1) :
                /\ SuffixOf(needle[1], text[k])
                /\ \A j \in 2..(n - 1) : needle[j] = text[k + j - 1]
                /\ PrefixOf(needle[n], text[k + n - 1])

\* f' {needle} ' in f' {text} '
InAsWords(needle, text) ==
    LET n == Len(needle)
    IN  \E k \in 1..(Len(text) - n + 1) :
            \A j \in 1..n : needle[j] = text[k + j - 1]

\* re.findall(r'\b\w+\b', text) and text.split()
Words(text) == text

\* the elements of a list, as a set
Range(s) == {s[k] : k \in DOMAIN s}

\* the words that are all digits
Digits == DOMAIN IntOf

\* A regular expression of the form \bW1\s+W2\s+...\b is the sequence of the
\* sets of words allowed at each place; (\d+) is the set Digits.
PatternMatches(pat, text) ==
    {k \in 1..(Len(text) - Len(pat) + 1) :
        \A j \in DOMAIN pat : text[k + j - 1] \in pat[j]}

\* re.search(pattern, text) is not None
Search(pat, text) == PatternMatches(pat, text) # {}

\* int(re.search(pattern, text).group(1)): the leftmost match
Group1(pat, text) ==
    LET k == CHOOSE m \in PatternMatches(pat, text) :
                 \A n \in PatternMatches(pat, text) : m <= n
        g == CHOOSE j \in DOMAIN pat : pat[j] = Digits
    IN  IntOf[text[k + g - 1]]

----------------------------------------------------------------------------
(* core/workflow_analyzer.py: WorkflowAnalyzer.  Scores are in tenths.       *)

\* master.json entries that are enabled, in manifest order
EnabledExtensions(config) == SelectSeq(config.extensions, LAMBDA ext : ext.enabled)

\* the fixed vocabulary of _extract_action_verbs
ActionVerbs ==
    {"analyze", "research", "summarize", "search", "find", "investigate",
     "explain", "simplify", "translate", "convert", "generate", "create",
     "compare", "evaluate", "assess", "review", "check", "verify",
     "extract", "parse", "format", "organize", "structure", "compile",
     "gather", "collect", "aggregate", "combine", "merge", "join"}

\* _extract_action_verbs
extract_action_verbs(text) ==
    {<< w >> : w \in Range(Words(Lower(text))) \cap ActionVerbs}

\* the capability tokens _discover_extension_capabilities collects for ext
raw_capabilities(ext) ==
    {Lower(kw) : kw \in Range(ext.keywords)}
    \cup {ReplaceUnderscores(Lower(intent)) : intent \in Range(ext.intents)}
    \cup (IF ext.category # << >> THEN {Lower(ext.category)} ELSE {})
    \cup extract_action_verbs(Lower(ext.description))

AnyIn(words, capabilities) == \E w \in words : << w >> \in capabilities

\* _infer_io_types: <<input_types, output_types>>
infer_io_types(capabilities) ==
    LET research == AnyIn({"research", "search", "investigate"}, capabilities)
        summary == AnyIn({"summarize", "explain", "simplify"}, capabilities)
        analysis == AnyIn({"analyze", "evaluate", "assess"}, capabilities)
        compare == AnyIn({"compare", "contrast"}, capabilities)
        format == AnyIn({"format", "structure", "organize"}, capabilities)
        ins == (IF research THEN {"query", "topic", "keywords"} ELSE {})
               \cup (IF summary THEN {"text", "data", "information"} ELSE {})
               \cup (IF analysis THEN {"data", "information", "content"} ELSE {})
               \cup (IF compare THEN {"multiple_sources", "data", "information"} ELSE {})
               \cup (IF format THEN {"unstructured_data", "raw_content"} ELSE {})
        outs == (IF research THEN {"data", "information", "sources"} ELSE {})
               \cup (IF summary THEN {"summary", "explanation", "simplified_text"} ELSE {})
               \cup (IF analysis THEN {"analysis", "evaluation", "insights"} ELSE {})
               \cup (IF compare THEN {"comparison", "differences", "similarities"} ELSE {})
               \cup (IF format THEN {"formatted_content", "structured_data"} ELSE {})
    IN  << IF ins = {} THEN {"general"} ELSE ins,
           IF outs = {} THEN {"general"} ELSE outs >>

\* the ExtensionCapability built for one enabled entry; priority stays the
\* manifest's number (the code divides by 10 and later multiplies by 2.0)
ExtensionCapability(ext) ==
    LET caps == raw_capabilities(ext)
        io == infer_io_types(caps)
    IN  [extension_id |-> ext.id,
         capabilities |-> caps,
         keywords |-> {Lower(kw) : kw \in Range(ext.keywords)},
         intents |-> {Lower(intent) : intent \in Range(ext.intents)},
         category |-> Lower(ext.category),
         priority |-> ext.priority,
         input_types |-> io[1],
         output_types |-> io[2]]

\* _discover_extension_capabilities: the ids in manifest order, and the
\* ExtensionCapability of each ({} when master.json is missing or unreadable)
discovered_ids(config) ==
    IF ~config.loaded THEN << >>
    ELSE LET en == EnabledExtensions(config)
         IN  [k \in DOMAIN en |-> en[k].id]

extension_capabilities(config) ==
    LET en == EnabledExtensions(config)
    IN  [id \in Range(discovered_ids(config)) |->
            ExtensionCapability(en[CHOOSE k \in DOMAIN en : en[k].id = id])]

\* the orders in which a Python set of strings can be iterated: the order
\* follows the string hashes, which change from one interpreter run to the next
SetIterations(S) ==
    {s \in [1..Cardinality(S) -> S] : \A a, b \in DOMAIN s : a # b => s[a] # s[b]}

RECURSIVE IterationsFor(_, _)
\* for each of ids, one iteration order of its capability set
IterationsFor(caps, ids) ==
    IF ids = << >> THEN {<< >>}
    ELSE {<< o >> \o rest : o \in SetIterations(caps[Head(ids)].capabilities),
                            rest \in IterationsFor(caps, Tail(ids))}

\* _get_capability_synonyms
synonyms_map ==
    [research |-> << "investigate", "study", "explore", "examine", "lookup", "find" >>,
     summarize |-> << "summary", "brief", "concise", "shorten", "condense", "abstract" >>,
     analyze |-> << "analysis", "evaluate", "examine", "assess", "review", "study" >>,
     compare |-> << "comparison", "contrast", "versus", "vs", "against", "difference" >>,
     explain |-> << "explanation", "clarify", "describe", "elaborate", "detail" >>,
     search |-> << "find", "lookup", "seek", "locate", "discover" >>,
     generate |-> << "create", "produce", "make", "build", "construct" >>,
     format |-> << "structure", "organize", "arrange", "layout", "style" >>,
     extract |-> << "get", "pull", "retrieve", "obtain", "collect" >>,
     verify |-> << "check", "confirm", "validate", "authenticate", "prove" >>]

get_capability_synonyms(capability) ==
    IF Len(capability) = 1 /\ capability[1] \in DOMAIN synonyms_map
    THEN synonyms_map[capability[1]]
    ELSE << >>

\* the extensions _find_similar_capability_extensions collects for capability
similar_extensions(config, capability) ==
    LET caps == extension_capabilities(config)
    IN  {id \in DOMAIN caps :
            \E k \in DOMAIN get_capability_synonyms(capability) :
                << get_capability_synonyms(capability)[k] >> \in caps[id].capabilities}

\* the one capability analyze_query looks up that need not be a key of the map
NoCapability == << "general" >>

\* The iteration orders one analyzer process can meet: for each discovered
\* extension an order of its capability set, and an order of the set of
\* extension ids (it decides list(set(...)) in
\* _find_similar_capability_extensions, which needs two candidates to matter).
IterationOrders(config) ==
    LET caps == extension_capabilities(config)
        ids == discovered_ids(config)
        fallback == IF NoCapability \in UNION {caps[id].capabilities : id \in DOMAIN caps}
                    THEN {}
                    ELSE similar_extensions(config, NoCapability)
    IN  [capabilities : IterationsFor(caps, ids),
         ids : IF Cardinality(fallback) >= 2 THEN SetIterations(Range(ids)) ELSE {ids}]

RECURSIVE AppendNew(_, _)
\* the keys of a dict after inserting the elements of s in order
AppendNew(keys, s) ==
    IF s = << >> THEN keys
    ELSE AppendNew(IF Head(s) \in Range(keys) THEN keys ELSE Append(keys, Head(s)),
                   Tail(s))

RECURSIVE Flatten(_)
Flatten(ss) == IF ss = << >> THEN << >> ELSE Head(ss) \o Flatten(Tail(ss))

\* where x goes in a list sorted by descending score, after its equals
InsertDescending(sorted, x) ==
    LET k == Cardinality({j \in DOMAIN sorted : sorted[j][2] >= x[2]})
    IN  SubSeq(sorted, 1, k) \o << x >> \o SubSeq(sorted, k + 1, Len(sorted))

RECURSIVE SortDescending(_)
\* sorted(pairs, key=lambda x: x[1], reverse=True): stable
SortDescending(pairs) ==
    IF pairs = << >> THEN << >>
    ELSE InsertDescending(SortDescending(SubSeq(pairs, 1, Len(pairs) - 1)),
                          pairs[Len(pairs)])

Firsts(pairs) == [k \in DOMAIN pairs |-> pairs[k][1]]

\* _build_capability_map: the keys in insertion order, and for each key the
\* extensions that have it, sorted by priority
capability_map_keys(config, order) == AppendNew(<< >>, Flatten(order.capabilities))

capability_map(config) ==
    LET caps == extension_capabilities(config)
        ids == discovered_ids(config)
        all == UNION {caps[id].capabilities : id \in DOMAIN caps}
    IN  [capability \in all |->
            Firsts(SortDescending(
                [k \in DOMAIN SelectSeq(ids, LAMBDA id : capability \in caps[id].capabilities) |->
                    LET id == SelectSeq(ids, LAMBDA x : capability \in caps[x].capabilities)[k]
                    IN  << id, caps[id].priority >>]))]

\* WorkflowAnalyzer.__init__ under one iteration order of the capability sets
WorkflowAnalyzer(config, order) ==
    [extension_capabilities |-> extension_capabilities(config),
     capability_map_keys |-> capability_map_keys(config, order),
     capability_map |-> capability_map(config),
     id_iteration |-> order.ids]

\* _build_dynamic_intent_patterns: the fixed patterns
sequential_connectors ==
    {<< {"and"}, {"then"} >>, << {"then"} >>, << {"after"}, {"that"} >>,
     << {"followed"}, {"by"} >>, << {"subsequently"} >>, << {"next"} >>}

constraint_patterns ==
    << << {"in"}, Digits, {"word", "words"} >>,
       << {"under"}, Digits, {"word", "words"} >>,
       << {"summarize"}, {"in"}, Digits >>,
       << {"max"}, Digits, {"word", "words"} >> >>

\* any(re.search(pattern, text) for pattern in parallel_connectors)
HasParallelConnector(text) ==
    \/ Search(<< {"and"}, {"also"} >>, text)
    \/ \E j, k \in DOMAIN text : j < k /\ PrefixOf("compare", text[j]) /\ text[k] = "with"
    \/ \E k \in 2..(Len(text) - 1) : text[k] = "vs"
    \/ Search(<< {"simultaneously"} >>, text)
    \/ Search(<< {"meanwhile"} >>, text)

HasConstraintPattern(text) ==
    \E k \in DOMAIN constraint_patterns : Search(constraint_patterns[k], text)

\* _has_workflow_indicators
has_workflow_indicators(query) ==
    LET query_lower == Lower(query)
    IN  \/ \E pat \in sequential_connectors : Search(pat, query_lower)
        \/ HasParallelConnector(query_lower)
        \/ HasConstraintPattern(query_lower)

\* how many elements of the list s satisfy the test
Count(s, Test(_)) == Cardinality({k \in DOMAIN s : Test(s[k])})

AnyWordIn(words, text) == \E w \in words : In(w, text)

\* the score _detect_required_capabilities gives one capability, in tenths
capability_score(capability, query_lower) ==
    (IF In(capability, query_lower) THEN 50 ELSE 0)
    + 20 * Count(Words(capability), LAMBDA word : In(<< word >>, query_lower))
    + 30 * Count(get_capability_synonyms(capability),
                 LAMBDA synonym : In(<< synonym >>, query_lower))
    + (IF /\ capability \in {<< "research" >>, << "comprehensive", "research" >>}
          /\ AnyWordIn({<< "research" >>, << "investigate" >>, << "study" >>,
                        << "find", "out" >>, << "lookup" >>}, query_lower)
       THEN 60 ELSE 0)
    + (IF capability = << "search" >> /\ In(<< "search" >>, query_lower)
       THEN IF In(<< "research" >>, query_lower) THEN 10 ELSE 40
       ELSE 0)
    + (IF /\ capability = << "summarize" >>
          /\ AnyWordIn({<< "summarize" >>, << "summary" >>, << "brief" >>,
                        << "concise" >>, << "shorten" >>}, query_lower)
       THEN 60 + (IF HasConstraintPattern(query_lower) THEN 30 ELSE 0)
       ELSE 0)
    + (IF /\ capability = << "analyze" >>
          /\ AnyWordIn({<< "analyze" >>, << "analysis" >>, << "evaluate" >>,
                        << "examine" >>, << "assess" >>}, query_lower)
       THEN 50 ELSE 0)

\* list.remove(x) when x is in the list
Remove(s, x) ==
    LET k == CHOOSE j \in DOMAIN s : s[j] = x /\ \A m \in 1..(j - 1) : s[m] # x
    IN  SubSeq(s, 1, k - 1) \o SubSeq(s, k + 1, Len(s))

major_categories ==
    {<< "research" >>, << "comprehensive", "research" >>, << "summarize" >>,
     << "summary" >>, << "analyze" >>, << "analysis" >>}

\* _filter_redundant_capabilities
filter_redundant_capabilities(capabilities) ==
    LET c1 == IF /\ << "research" >> \in Range(capabilities)
                 /\ << "comprehensive", "research" >> \in Range(capabilities)
              THEN Remove(capabilities, << "research" >>)
              ELSE capabilities
        c2 == IF /\ << "search" >> \in Range(c1)
                 /\ Range(c1) \cap {<< "research" >>, << "comprehensive", "research" >>} # {}
              THEN Remove(c1, << "search" >>)
              ELSE c1
        research_caps == SelectSeq(c2, LAMBDA cap : In(<< "research" >>, cap))
        summary_caps == SelectSeq(c2, LAMBDA cap : In(<< "summariz" >>, cap)
                                                   \/ In(<< "summary" >>, cap))
        analysis_caps == SelectSeq(c2, LAMBDA cap : In(<< "analyz" >>, cap)
                                                    \/ In(<< "analysis" >>, cap))
        filtered == (IF research_caps # << >> THEN << research_caps[1] >> ELSE << >>)
                    \o (IF summary_caps # << >> THEN << summary_caps[1] >> ELSE << >>)
                    \o (IF analysis_caps # << >> THEN << analysis_caps[1] >> ELSE << >>)
    IN  filtered \o SelectSeq(c2, LAMBDA cap : cap \notin major_categories
                                              /\ cap \notin Range(filtered))

\* _detect_required_capabilities
detect_required_capabilities(an, query) ==
    LET query_lower == Lower(query)
        keys == an.capability_map_keys
        scored == [k \in DOMAIN keys |-> << keys[k], capability_score(keys[k], query_lower) >>]
        capability_scores == SelectSeq(scored, LAMBDA p : p[2] > 0)
        sorted_capabilities == SortDescending(capability_scores)
        required_capabilities == Firsts(SelectSeq(sorted_capabilities, LAMBDA p : p[2] >= 30))
    IN  filter_redundant_capabilities(required_capabilities)

\* _find_similar_capability_extensions: list(set(candidate_extensions))
find_similar_capability_extensions(an, capability) ==
    SelectSeq(an.id_iteration,
              LAMBDA id : \E k \in DOMAIN get_capability_synonyms(capability) :
                              << get_capability_synonyms(capability)[k] >>
                                  \in DOMAIN an.capability_map
                              /\ id \in Range(an.capability_map[
                                     << get_capability_synonyms(capability)[k] >>]))

\* the score _find_best_extension_for_capability gives a candidate, in tenths
extension_score(an, ext_id, capability, query) ==
    LET ext_cap == an.extension_capabilities[ext_id]
        n == Cardinality(ext_cap.capabilities)
    IN  (IF capability \in ext_cap.capabilities THEN 50 ELSE 0)
        + 20 * Cardinality({keyword \in ext_cap.keywords : In(keyword, Lower(query))})
        + 2 * ext_cap.priority
        + (IF n < 10 THEN 10 - n ELSE 0)

\* the first element of scored pairs whose score is above zero and above every
\* earlier one and not below any later one; << >> stands for None
FirstBest(pairs) ==
    LET best == {k \in DOMAIN pairs :
                    /\ pairs[k][2] > 0
                    /\ \A j \in 1..(k - 1) : pairs[j][2] < pairs[k][2]
                    /\ \A j \in (k + 1)..Len(pairs) : pairs[j][2] <= pairs[k][2]}
    IN  IF best = {} THEN << >> ELSE << pairs[CHOOSE k \in best : TRUE][1] >>

\* _find_best_extension_for_capability: << id >>, or << >> for None
find_best_extension_for_capability(an, capability, query) ==
    LET Best(candidate_extensions) ==
            FirstBest([k \in DOMAIN candidate_extensions |->
                          << candidate_extensions[k],
                             extension_score(an, candidate_extensions[k], capability, query) >>])
    IN  IF capability \in DOMAIN an.capability_map /\ an.capability_map[capability] # << >>
        THEN Best(an.capability_map[capability])
        ELSE Best(find_similar_capability_extensions(an, capability))

\* the pipeline with its repeats kept
Deduplicate_KeepsRepeats(s) == s

\* dict.fromkeys order: the list without its later duplicates
Deduplicate(s) == AppendNew(<< >>, s)

\* the class _optimize_pipeline_flow gives an extension under word constraints
FlowClass(ext_cap) ==
    LET research_score == Cardinality(ext_cap.capabilities \cap
            {<< "research" >>, << "search" >>, << "investigate" >>,
             << "comprehensive", "research" >>})
        summary_score == Cardinality(ext_cap.capabilities \cap
            {<< "summarize" >>, << "summary" >>, << "explain" >>, << "simplify" >>})
    IN  IF research_score > summary_score THEN "research"
        ELSE IF summary_score > research_score THEN "summary"
        ELSE IF \/ ext_cap.category \in {<< "research" >>, << "investigation" >>}
                \/ ext_cap.keywords \cap {<< "research" >>, << "investigate" >>} # {}
             THEN "research"
        ELSE IF \/ ext_cap.category \in {<< "content_analysis" >>, << "summary" >>}
                \/ ext_cap.keywords \cap {<< "summarize" >>, << "summary" >>,
                                          << "explain" >>} # {}
             THEN "summary"
        ELSE "other"

\* compatibility of a candidate with the output types before it, in halves
Compatibility(last_output_types, ext_cap) ==
    2 * Cardinality(last_output_types \cap ext_cap.input_types)
    + (IF "general" \in ext_cap.input_types THEN 1 ELSE 0)

RECURSIVE ChainByCompatibility_LastRemaining(_, _, _)
\* the while loop of _optimize_pipeline_flow taking the last remaining
\* extension when none is compatible
ChainByCompatibility_LastRemaining(an, ordered_pipeline, remaining_extensions) ==
    IF remaining_extensions = << >> THEN ordered_pipeline
    ELSE LET last_output_types ==
                 IF ordered_pipeline = << >> THEN {"general"}
                 ELSE an.extension_capabilities[
                          ordered_pipeline[Len(ordered_pipeline)]].output_types
             best_next == FirstBest(
                 [k \in DOMAIN remaining_extensions |->
                     << remaining_extensions[k],
                        Compatibility(last_output_types,
                            an.extension_capabilities[remaining_extensions[k]]) >>])
             next == IF best_next # << >> THEN best_next[1]
                     ELSE remaining_extensions[Len(remaining_extensions)]
         IN  ChainByCompatibility_LastRemaining(an, Append(ordered_pipeline, next),
                                                Remove(remaining_extensions, next))

RECURSIVE ChainByCompatibility(_, _, _)
\* the while loop of _optimize_pipeline_flow
ChainByCompatibility(an, ordered_pipeline, remaining_extensions) ==
    IF remaining_extensions = << >> THEN ordered_pipeline
    ELSE LET last_output_types ==
                 IF ordered_pipeline = << >> THEN {"general"}
                 ELSE an.extension_capabilities[
                          ordered_pipeline[Len(ordered_pipeline)]].output_types
             best_next == FirstBest(
                 [k \in DOMAIN remaining_extensions |->
                     << remaining_extensions[k],
                        Compatibility(last_output_types,
                            an.extension_capabilities[remaining_extensions[k]]) >>])
             next == IF best_next # << >> THEN best_next[1] ELSE remaining_extensions[1]
         IN  ChainByCompatibility(an, Append(ordered_pipeline, next),
                                  Remove(remaining_extensions, next))

\* _optimize_pipeline_flow leaving a pipeline under word constraints as planned
optimize_pipeline_flow_KeepsPlannedOrder(an, pipeline, query) ==
    IF Len(pipeline) <= 1 \/ HasConstraintPattern(Lower(query)) THEN pipeline
    ELSE LET starters == SelectSeq(pipeline, LAMBDA id :
                 an.extension_capabilities[id].input_types \cap {"query", "general"} # {})
         IN  IF starters = << >>
             THEN ChainByCompatibility(an, << >>, pipeline)
             ELSE ChainByCompatibility(an, << starters[1] >>, Remove(pipeline, starters[1]))

\* _optimize_pipeline_flow
optimize_pipeline_flow(an, pipeline, query) ==
    IF Len(pipeline) <= 1 THEN pipeline
    ELSE IF HasConstraintPattern(Lower(query))
    THEN LET class(id) == FlowClass(an.extension_capabilities[id])
         IN  SelectSeq(pipeline, LAMBDA id : class(id) = "research")
             \o SelectSeq(pipeline, LAMBDA id : class(id) = "other")
             \o SelectSeq(pipeline, LAMBDA id : class(id) = "summary")
    ELSE LET starters == SelectSeq(pipeline, LAMBDA id :
                 an.extension_capabilities[id].input_types \cap {"query", "general"} # {})
         IN  IF starters = << >>
             THEN ChainByCompatibility(an, << >>, pipeline)
             ELSE ChainByCompatibility(an, << starters[1] >>, Remove(pipeline, starters[1]))

\* _plan_dynamic_workflow; confidence in tenths
plan_dynamic_workflow(an, query, required_capabilities) ==
    LET Result(best, final_pipeline) ==
            [pipeline |-> final_pipeline,
             confidence |-> IF Cardinality({k \in DOMAIN best : best[k] = << >>}) < 4
                            THEN 8 - 2 * Cardinality({k \in DOMAIN best : best[k] = << >>})
                            ELSE 1,
             reasoning |-> << "Dynamic pipeline",
                              [k \in DOMAIN best |-> << required_capabilities[k], best[k] >>],
                              final_pipeline >>]
        Plan(best) ==
            Result(best, optimize_pipeline_flow(an, Deduplicate(Flatten(best)), query))
    IN  Plan([k \in DOMAIN required_capabilities |->
                 find_best_extension_for_capability(an, required_capabilities[k], query)])

\* _estimate_complexity without the score for the length of the query
estimate_complexity_IgnoresLength(capabilities, query) ==
    LET complexity_score ==
            Len(capabilities) + (IF HasParallelConnector(Lower(query)) THEN 2 ELSE 0)
    IN  IF complexity_score <= 2 THEN "simple"
        ELSE IF complexity_score <= 4 THEN "moderate"
        ELSE "complex"

\* _estimate_complexity
estimate_complexity(capabilities, query) ==
    LET query_words == Len(Words(query))
        complexity_score ==
            Len(capabilities)
            + (IF query_words > 20 THEN 2 ELSE IF query_words > 10 THEN 1 ELSE 0)
            + (IF HasParallelConnector(Lower(query)) THEN 2 ELSE 0)
    IN  IF complexity_score <= 2 THEN "simple"
        ELSE IF complexity_score <= 4 THEN "moderate"
        ELSE "complex"

\* analyze_query; confidence in tenths
analyze_query(an, query) ==
    LET Workflow(required_capabilities, workflow_plan) ==
            [requires_workflow |-> TRUE,
             primary_intent |-> IF required_capabilities # << >>
                                THEN required_capabilities[1] ELSE NoCapability,
             secondary_intents |-> SubSeq(required_capabilities, 2, Len(required_capabilities)),
             complexity |-> estimate_complexity(required_capabilities, query),
             confidence |-> workflow_plan.confidence,
             suggested_pipeline |-> workflow_plan.pipeline,
             reasoning |-> workflow_plan.reasoning]
        Single(primary_capability) ==
            [requires_workflow |-> FALSE,
             primary_intent |-> primary_capability,
             secondary_intents |-> << >>,
             complexity |-> "simple",
             confidence |-> 9,
             suggested_pipeline |->
                 find_best_extension_for_capability(an, primary_capability, query),
             reasoning |-> << "Single capability", primary_capability >>]
        Analysis(required_capabilities) ==
            IF Len(required_capabilities) > 1 \/ has_workflow_indicators(query)
            THEN Workflow(required_capabilities,
                          plan_dynamic_workflow(an, query, required_capabilities))
            ELSE Single(IF required_capabilities # << >>
                        THEN required_capabilities[1] ELSE NoCapability)
    IN  Analysis(detect_required_capabilities(an, query))

----------------------------------------------------------------------------
(* master.json files and user requests *)

\* one entry of master.json "extensions"; priority is the manifest's number
Extension(id, keywords, intents, category, description, priority) ==
    [id |-> id, enabled |-> TRUE, keywords |-> keywords, intents |-> intents,
     category |-> category, description |-> description, priority |-> priority]

ResearchAgent(id) ==
    Extension(id, << << "research" >> >>, << >>, << "research" >>,
              << "research", "any", "topic" >>, 8)
SummaryAgent(id) ==
    Extension(id, << << "summarize" >>, << "summary" >> >>, << >>,
              << "content_analysis" >>, << "summarize", "pages" >>, 5)
WeatherAgent(id) ==
    Extension(id, << << "Weather" >> >>, << << "get_weather" >> >>, << "utility" >>,
              << "weather", "forecasts" >>, 5)
MarketAgent(id) ==
    Extension(id, << << "stock" >> >>, << >>, << >>,
              << "translate", "stock", "reports" >>, 9)
TranslateAgent(id) == Extension(id, << << "translate" >> >>, << >>, << >>, << >>, 5)
AnalyzeAgent(id) == Extension(id, << << "analyze" >> >>, << >>, << >>, << >>, 5)
ReportAgent(id) == Extension(id, << << "analysis" >> >>, << >>, << >>, << >>, 5)
CryptoAgent(id) == Extension(id, << << "btc" >>, << "price" >> >>, << >>, << >>, << >>, 5)
PlainWeatherAgent(id) == Extension(id, << << "weather" >> >>, << >>, << >>, << >>, 5)
PlainStockAgent(id) == Extension(id, << << "stock" >> >>, << >>, << >>, << >>, 5)
ExplainAgent(id) == Extension(id, << << "explain" >> >>, << >>, << >>, << >>, 5)
InvestigateAgent(id) == Extension(id, << << "investigate" >> >>, << >>, << >>, << >>, 5)

Disabled(ext) == [ext EXCEPT !.enabled = FALSE]

\* the lists of entries the manifests are made of, each in every order
ExtensionLists ==
    {<< ResearchAgent("ext_a"), SummaryAgent("ext_b") >>,
     << ResearchAgent("ext_a"), SummaryAgent("ext_b"), WeatherAgent("ext_missing") >>,
     << PlainWeatherAgent("ext_a"), PlainStockAgent("ext_b") >>,
     << TranslateAgent("ext_a"), MarketAgent("ext_b") >>,
     << AnalyzeAgent("ext_a"), ReportAgent("ext_b") >>,
     << WeatherAgent("ext_a"), CryptoAgent("ext_b") >>,
     << PlainWeatherAgent("ext_a"), Disabled(PlainStockAgent("ext_b")) >>,
     << CryptoAgent("ext_a") >>,
     << ExplainAgent("ext_a"), InvestigateAgent("ext_b") >>,
     << Disabled(ResearchAgent("ext_a")), Disabled(SummaryAgent("ext_b")) >>,
     << >>}

Reorderings(list) ==
    {[k \in DOMAIN list |-> list[p[k]]] : p \in SetIterations(DOMAIN list)}

\* json.load of master.json: the file is missing or unreadable, or it lists
\* extensions (no "routing" section: the default threshold applies)
MasterConfigs ==
    {[loaded |-> FALSE, extensions |-> << >>]}
    \cup {[loaded |-> TRUE, extensions |-> list] :
             list \in UNION {Reorderings(l) : l \in ExtensionLists}}

UserRequests ==
    {<< "research", "ai", "then", "summarize", "in", "50", "words" >>,
     << "research", "ai", "and", "explain", "in", "40", "words" >>,
     << "explain", "then", "investigate", "in", "50", "words" >>,
     << "weather", "then", "stock" >>,
     << "translate", "then", "stock" >>,
     << "analyze", "data", "then", "analysis" >>,
     << "btc", "then", "price" >>,
     << "btc", "price" >>,
     << "weather", "today" >>,
     << "summarize", "this", "page" >>,
     << "hello", "there" >>}

----------------------------------------------------------------------------
(* core/extension_router.py and core/smart_extension_router.py.  Scores of   *)
(* ExtensionRouter are in thousandths, those of SmartExtensionRouter in      *)
(* two-thousandths, so that the priority multiplier stays an integer.        *)

\* len() of a str
Length(text) ==
    IF text = << >> THEN 0
    ELSE LET sum[k \in 0..Len(text)] ==
                 IF k = 0 THEN 0 ELSE sum[k - 1] + WordLength[text[k]]
         IN  sum[Len(text)] + Len(text) - 1

\* the enabled entries of a loaded master.json
enabled_extensions(config) == EnabledExtensions(config)

RoutingResult(extension_id, confidence, reason, matched_keywords) ==
    [extension_id |-> extension_id, confidence |-> confidence, reason |-> reason,
     matched_keywords |-> matched_keywords, is_workflow |-> FALSE]

\* the first of the matches with the highest score: matches.sort(reverse=True)[0]
BestMatch(matches) ==
    matches[CHOOSE k \in DOMAIN matches :
                /\ \A j \in 1..(k - 1) : matches[j].score < matches[k].score
                /\ \A j \in (k + 1)..Len(matches) : matches[j].score <= matches[k].score]

\* ExtensionRouter._get_fallback_result (no "routing" section in master.json)
basic_get_fallback_result(config, reason) ==
    RoutingResult("topic-agent", 0, << "Fallback", reason >>, << >>)

\* whether an intent counts in ExtensionRouter._calculate_match_score
IntentTouches(intent, words) ==
    \E k \in DOMAIN ReplaceUnderscores(intent) :
        LET intent_word == LowerWord(ReplaceUnderscores(intent)[k])
        IN  \E word \in Range(words) : SubOf(intent_word, word) \/ SubOf(word, intent_word)

\* ExtensionRouter._calculate_match_score; common is list(common_words) in the
\* order the set was iterated in
calculate_match_score(user_request, extension, common) ==
    LET words == Words(Lower(user_request))
        keywords == SelectSeq(extension.keywords, LAMBDA kw : In(Lower(kw), user_request))
        intents == SelectSeq(extension.intents, LAMBDA intent : IntentTouches(intent, words))
        category == Lower(ReplaceUnderscores(extension.category))
        base == 10 * Len(keywords) + 15 * Len(intents)
                + (IF In(category, user_request) THEN 5 ELSE 0)
                + 2 * Len(common)
    IN  [extension |-> extension,
         score |-> base * (100 + extension.priority),
         matched_keywords |-> Flatten(keywords) \o Flatten(intents) \o common]

\* set(words) & set(re.findall(r'\b\w+\b', description))
common_words(user_request, extension) ==
    Range(Words(Lower(user_request))) \cap Range(Words(Lower(extension.description)))

RECURSIVE CommonIterations(_, _)
\* for each extension, one iteration order of its common_words
CommonIterations(user_request, extensions) ==
    IF extensions = << >> THEN {<< >>}
    ELSE {<< o >> \o rest :
            o \in SetIterations(common_words(user_request, Head(extensions))),
            rest \in CommonIterations(user_request, Tail(extensions))}

\* ExtensionRouter.route_request under one iteration order of each common_words
basic_route_request(config, user_request, iteration) ==
    IF ~config.loaded THEN basic_get_fallback_result(config, "Master config not loaded")
    ELSE IF enabled_extensions(config) = << >>
    THEN basic_get_fallback_result(config, "No enabled extensions found")
    ELSE LET extensions == enabled_extensions(config)
             request_lower == Lower(user_request)
             matches == [k \in DOMAIN extensions |->
                            calculate_match_score(request_lower, extensions[k], iteration[k])]
             best_match == BestMatch(matches)
         IN  IF best_match.score >= 300
             THEN RoutingResult(best_match.extension.id, best_match.score,
                                << "Matched keywords", best_match.matched_keywords >>,
                                best_match.matched_keywords)
             ELSE basic_get_fallback_result(config, "No extension met confidence threshold")

\* SmartExtensionRouter._calculate_enhanced_match_score
calculate_enhanced_match_score(user_request, extension) ==
    LET words == Words(Lower(user_request))
        keywords == SelectSeq(extension.keywords, LAMBDA kw : In(Lower(kw), user_request))
        keyword_score(kw) ==
            (IF Length(Lower(kw)) > 6 THEN 20 ELSE 10)
            + (IF InAsWords(Lower(kw), user_request) THEN 10 ELSE 0)
        keyword_sum[k \in 0..Len(keywords)] ==
            IF k = 0 THEN 0 ELSE keyword_sum[k - 1] + keyword_score(keywords[k])
        intent_matches(intent) ==
            Count(ReplaceUnderscores(intent),
                  LAMBDA intent_word : LowerWord(intent_word) \in Range(words))
        intents == SelectSeq(extension.intents, LAMBDA intent : intent_matches(intent) > 0)
        intent_sum[k \in 0..Len(intents)] ==
            IF k = 0 THEN 0 ELSE intent_sum[k - 1] + 15 * intent_matches(intents[k])
        category == Lower(ReplaceUnderscores(extension.category))
        base == keyword_sum[Len(keywords)] + intent_sum[Len(intents)]
                + (IF In(category, user_request) THEN 3 ELSE 0)
                + Cardinality(common_words(user_request, extension))
    IN  [extension |-> extension,
         score |-> base * (200 + extension.priority),
         matched_keywords |-> Flatten(keywords) \o Flatten(intents)]

\* the score _find_best_fallback_extension gives an enabled extension
fallback_score(ext) ==
    ext.priority
    + (IF {Lower(kw) : kw \in Range(ext.keywords)}
            \cap {<< "general" >>, << "summary" >>, << "help" >>, << "topic" >>,
                  << "content" >>} # {}
       THEN 5 ELSE 0)
    + (IF Lower(ext.category) \in {<< "content_analysis" >>, << "general" >>, << "utility" >>}
       THEN 3 ELSE 0)

\* SmartExtensionRouter._find_best_fallback_extension
find_best_fallback_extension(config) ==
    IF ~config.loaded THEN "unknown"
    ELSE IF enabled_extensions(config) = << >> THEN "unknown"
    ELSE LET extensions == enabled_extensions(config)
             best == FirstBest([k \in DOMAIN extensions |->
                                   << extensions[k].id, fallback_score(extensions[k]) >>])
         IN  IF best # << >> THEN best[1] ELSE extensions[1].id

\* SmartExtensionRouter._get_fallback_result
get_fallback_result(config, reason) ==
    RoutingResult(find_best_fallback_extension(config), 0, << "Fallback", reason >>, << >>)

\* SmartExtensionRouter._route_with_enhanced_rules
route_with_enhanced_rules(config, user_request, extensions) ==
    LET request_lower == Lower(user_request)
        matches == [k \in DOMAIN extensions |->
                       calculate_enhanced_match_score(request_lower, extensions[k])]
        best_match == BestMatch(matches)
    IN  IF best_match.score >= 600
        THEN RoutingResult(best_match.extension.id, best_match.score,
                           << "Enhanced matching - Keywords", best_match.matched_keywords >>,
                           best_match.matched_keywords)
        ELSE get_fallback_result(config, "No extension met confidence threshold")

\* the word-limit patterns of SmartExtensionRouter._extract_constraints
word_patterns ==
    << << {"in"}, Digits, {"word", "words"} >>,
       << {"under"}, Digits, {"word", "words"} >>,
       << {"max"}, Digits, {"word", "words"} >>,
       << {"summarize"}, {"in"}, Digits >>,
       << {"limit"}, {"to"}, Digits >> >>

\* SmartExtensionRouter._extract_constraints: a dict of max_words and style
extract_constraints(query) ==
    LET query_lower == Lower(query)
        matching == {k \in DOMAIN word_patterns : Search(word_patterns[k], query_lower)}
        first == CHOOSE k \in matching : \A j \in matching : k <= j
        limits == IF matching = {} THEN EmptyDict
                  ELSE [max_words |-> Group1(word_patterns[first], query_lower),
                        style |-> "concise"]
    IN  IF In(<< "simple" >>, query_lower) \/ In(<< "explain" >>, query_lower)
        THEN DictMerge(limits, [style |-> "simple"])
        ELSE IF In(<< "detailed" >>, query_lower) \/ In(<< "comprehensive" >>, query_lower)
        THEN DictMerge(limits, [style |-> "detailed"])
        ELSE limits

\* the WorkflowStep list with the constraints given to every step
WorkflowSteps_ConstraintsOnEveryStep(pipeline, user_request) ==
    [k \in DOMAIN pipeline |->
        [extension_id |-> pipeline[k],
         action |-> "process_page",
         parameters |-> extract_constraints(user_request),
         input_source |-> IF k > 1 THEN "previous_step" ELSE "user_query"]]

\* the WorkflowStep list _try_workflow_routing builds for a pipeline
WorkflowSteps(pipeline, user_request) ==
    [k \in DOMAIN pipeline |->
        [extension_id |-> pipeline[k],
         action |-> "process_page",
         parameters |-> IF k = Len(pipeline) THEN extract_constraints(user_request)
                        ELSE EmptyDict,
         input_source |-> IF k > 1 THEN "previous_step" ELSE "user_query"]]

----------------------------------------------------------------------------
(* A router process: route_request, and the pipeline run it hands to the    *)
(* WorkflowExecutor it owns.  The router is built without the optional      *)
(* sentence-transformers package, so it ranks by rules.                     *)

NoAnalysis == [none |-> TRUE]

\* the dict _try_workflow_routing returns in routing mode
WorkflowRoutingInfo(analysis) ==
    [type |-> "workflow", success |-> TRUE, data |-> "None",
     workflow_info |-> [pipeline |-> analysis.suggested_pipeline,
                        complexity |-> analysis.complexity,
                        confidence |-> analysis.confidence,
                        reasoning |-> analysis.reasoning]]

\* the dict _try_workflow_routing returns after execute_sequential_workflow
WorkflowResult(analysis, result) ==
    IF result.success
    THEN [type |-> "workflow", success |-> TRUE, data |-> result.final_result,
          workflow_info |-> [pipeline |-> analysis.suggested_pipeline,
                             steps_executed |-> Len(result.results),
                             complexity |-> analysis.complexity,
                             confidence |-> analysis.confidence,
                             reasoning |-> analysis.reasoning]]
    ELSE [type |-> "workflow", success |-> FALSE, error |-> result.error,
          workflow_info |-> [pipeline |-> analysis.suggested_pipeline,
                             failed_at_step |-> Len(result.results)]]

\* route_request returns value to its caller
Return(w, value) ==
    /\ rt' = [rt EXCEPT !.result = value]
    /\ pc' = [pc EXCEPT ![w] = "routed"]
    /\ UNCHANGED steps

\* route_request without the routing_only test of _try_workflow_routing
SmartRoute_ExecutesPlan(w) ==
    /\ pc[w] = "route"
    /\ rt.kind = "smart"
    /\ LET config == rt.master_config
       IN  IF ~config.loaded
           THEN Return(w, get_fallback_result(config, "Master config not loaded"))
           ELSE IF enabled_extensions(config) = << >>
           THEN Return(w, get_fallback_result(config, "No enabled extensions found"))
           ELSE \E order \in IterationOrders(config) :
                \E analysis \in {analyze_query(WorkflowAnalyzer(config, order),
                                                rt.user_request)} :
                      IF analysis.requires_workflow
                      THEN /\ rt' = [rt EXCEPT
                                       !.analysis = analysis,
                                       !.steps = WorkflowSteps(analysis.suggested_pipeline,
                                                               rt.user_request)]
                           /\ steps' = [steps EXCEPT ![w] = analysis.suggested_pipeline]
                           /\ pc' = [pc EXCEPT ![w] = "start"]
                      ELSE /\ rt' = [rt EXCEPT
                                       !.analysis = analysis,
                                       !.result = route_with_enhanced_rules(
                                           config, rt.user_request, enabled_extensions(config))]
                           /\ pc' = [pc EXCEPT ![w] = "routed"]
                           /\ UNCHANGED steps
    /\ UNCHANGED << strategy, data, current_data, results, events, i, process, ret,
                    warm_processes, objs, procs, repertoire, faults, requests >>

\* SmartExtensionRouter.route_request up to its return or to the call of
\* execute_sequential_workflow, in a process whose string hashes give the
\* capability sets one of their iteration orders
SmartRoute(w) ==
    /\ pc[w] = "route"
    /\ rt.kind = "smart"
    /\ LET config == rt.master_config
       IN  IF ~config.loaded
           THEN Return(w, get_fallback_result(config, "Master config not loaded"))
           ELSE IF enabled_extensions(config) = << >>
           THEN Return(w, get_fallback_result(config, "No enabled extensions found"))
           ELSE \E order \in IterationOrders(config) :
                \E analysis \in {analyze_query(WorkflowAnalyzer(config, order),
                                                rt.user_request)} :
                      IF analysis.requires_workflow
                      THEN IF rt.routing_only
                           THEN /\ rt' = [rt EXCEPT !.analysis = analysis,
                                                    !.result = WorkflowRoutingInfo(analysis)]
                                /\ pc' = [pc EXCEPT ![w] = "routed"]
                                /\ UNCHANGED steps
                           ELSE /\ rt' = [rt EXCEPT
                                            !.analysis = analysis,
                                            !.steps = WorkflowSteps(analysis.suggested_pipeline,
                                                                    rt.user_request)]
                                /\ steps' = [steps EXCEPT ![w] = analysis.suggested_pipeline]
                                /\ pc' = [pc EXCEPT ![w] = "start"]
                      ELSE /\ rt' = [rt EXCEPT
                                       !.analysis = analysis,
                                       !.result = route_with_enhanced_rules(
                                           config, rt.user_request, enabled_extensions(config))]
                           /\ pc' = [pc EXCEPT ![w] = "routed"]
                           /\ UNCHANGED steps
    /\ UNCHANGED << strategy, data, current_data, results, events, i, process, ret,
                    warm_processes, objs, procs, repertoire, faults, requests >>

\* _try_workflow_routing after execute_sequential_workflow returned
SmartReturn(w) ==
    /\ pc[w] = "done"
    /\ rt.kind = "smart"
    /\ Return(w, WorkflowResult(rt.analysis, ret[w]))
    /\ UNCHANGED << strategy, data, current_data, results, events, i, process, ret,
                    warm_processes, objs, procs, repertoire, faults, requests >>

\* ExtensionRouter.route_request
BasicRoute(w) ==
    /\ pc[w] = "route"
    /\ rt.kind = "basic"
    /\ LET config == rt.master_config
       IN  \E iteration \in CommonIterations(rt.user_request, enabled_extensions(config)) :
               Return(w, basic_route_request(config, rt.user_request, iteration))
    /\ UNCHANGED << strategy, data, current_data, results, events, i, process, ret,
                    warm_processes, objs, procs, repertoire, faults, requests >>

\* One router process is asked to route one request; the workers answer as
\* in PoolResponses and every process starts.
RouterInit ==
    /\ strategy = [w \in Callers |-> "cold"]
    /\ steps = [w \in Callers |-> << >>]
    /\ data = [w \in Callers |-> DataFull]
    /\ pc = [w \in Callers |-> IF w = "w1" THEN "route" ELSE "idle"]
    /\ repertoire = PoolResponses
    /\ faults = FALSE
    /\ rt \in [kind : {"smart", "basic"}, master_config : MasterConfigs,
               user_request : UserRequests, routing_only : BOOLEAN,
               analysis : {NoAnalysis}, steps : {<< >>}, result : {NoReturn}]
    /\ rt.kind = "basic" => rt.routing_only = FALSE
    /\ InitCommon

RouterNext ==
    \/ \E w \in Callers : SmartRoute(w)
    \/ \E w \in Callers : SmartReturn(w)
    \/ \E w \in Callers : BasicRoute(w)
    \/ \E w \in Callers : WorkflowStart(w)
    \/ \E w \in Callers : StepStart(w)
    \/ \E w \in Callers : WorkflowComplete(w)
    \/ \E w \in Callers : ColdStart(w)
    \/ \E w \in Callers : ColdCommunicate(w)

RouterSpec == RouterInit /\ [][RouterNext]_vars

----------------------------------------------------------------------------
(* ExtensionRouter.route_request in one thread while another thread calls   *)
(* reload_config.  Every evaluation of self.master_config is a step of its  *)
(* own: the attribute is read again at each use and no lock is held.        *)

\* config.get('routing', {})
Routing(config) == IF "routing" \in DOMAIN config THEN config.routing ELSE EmptyDict

\* what _load_master_config can return: None, or a manifest with or without
\* a "routing" section (threshold in thousandths)
ReloadConfigs ==
    {[loaded |-> FALSE, extensions |-> << >>]}
    \cup {[loaded |-> TRUE, extensions |-> list] :
             list \in {<< PlainWeatherAgent("ext_a"), PlainStockAgent("ext_b") >>,
                       << Disabled(PlainWeatherAgent("ext_a")) >>}}
    \cup {[loaded |-> TRUE, extensions |-> << PlainStockAgent("ext_b") >>,
           routing |-> [confidenceThreshold |-> 2000, defaultExtension |-> "ext_b"]],
          [loaded |-> TRUE, extensions |-> << WeatherAgent("ext_a") >>,
           routing |-> [confidenceThreshold |-> 5000, defaultExtension |-> "ext_a"]]}

\* the AttributeError of None.get(...)
Raised == [raised |-> "AttributeError"]

\* route_request goes on to _get_fallback_result
ToFallback(w) ==
    /\ pc' = [pc EXCEPT ![w] = "fallback"]

\* one evaluation of self.master_config by route_request, and the code that
\* follows it up to the next evaluation or to the return
RouteRead(w) ==
    /\ rt.kind = "reloading"
    /\ pc[w] \in {"route", "extensions", "threshold", "fallback", "default"}
    /\ \E config \in {rt.master_config} :
         IF pc[w] = "route"
         THEN /\ rt' = [rt EXCEPT !.used = Append(@, config)]
              /\ pc' = [pc EXCEPT ![w] = IF config.loaded THEN "extensions" ELSE "fallback"]
         ELSE IF pc[w] = "extensions"
         THEN IF ~config.loaded
              THEN /\ rt' = [rt EXCEPT !.result = Raised]
                   /\ pc' = [pc EXCEPT ![w] = "routed"]
              ELSE IF enabled_extensions(config) = << >>
              THEN /\ rt' = [rt EXCEPT !.used = Append(@, config)]
                   /\ ToFallback(w)
              ELSE \E iteration \in CommonIterations(rt.user_request,
                                                     enabled_extensions(config)) :
                      /\ rt' = [rt EXCEPT
                                  !.used = Append(@, config),
                                  !.best_match = BestMatch(
                                      [k \in DOMAIN enabled_extensions(config) |->
                                          calculate_match_score(Lower(rt.user_request),
                                              enabled_extensions(config)[k], iteration[k])])]
                      /\ pc' = [pc EXCEPT ![w] = "threshold"]
         ELSE IF pc[w] = "threshold"
         THEN IF ~config.loaded
              THEN /\ rt' = [rt EXCEPT !.result = Raised]
                   /\ pc' = [pc EXCEPT ![w] = "routed"]
              ELSE IF rt.best_match.score >= Get(Routing(config), "confidenceThreshold", 300)
              THEN /\ rt' = [rt EXCEPT
                               !.used = Append(@, config),
                               !.result = RoutingResult(rt.best_match.extension.id,
                                              rt.best_match.score,
                                              << "Matched keywords",
                                                 rt.best_match.matched_keywords >>,
                                              rt.best_match.matched_keywords)]
                   /\ pc' = [pc EXCEPT ![w] = "routed"]
              ELSE /\ rt' = [rt EXCEPT !.used = Append(@, config)]
                   /\ ToFallback(w)
         ELSE IF pc[w] = "fallback"
         THEN IF config.loaded
              THEN /\ rt' = [rt EXCEPT !.used = Append(@, config)]
                   /\ pc' = [pc EXCEPT ![w] = "default"]
              ELSE /\ rt' = [rt EXCEPT
                               !.used = Append(@, config),
                               !.result = RoutingResult("topic-agent", 0,
                                                        << "Fallback" >>, << >>)]
                   /\ pc' = [pc EXCEPT ![w] = "routed"]
         ELSE IF ~config.loaded
              THEN /\ rt' = [rt EXCEPT !.result = Raised]
                   /\ pc' = [pc EXCEPT ![w] = "routed"]
              ELSE /\ rt' = [rt EXCEPT
                               !.used = Append(@, config),
                               !.result = RoutingResult(
                                   Get(Routing(config), "defaultExtension", "topic-agent"),
                                   0, << "Fallback" >>, << >>)]
                   /\ pc' = [pc EXCEPT ![w] = "routed"]
    /\ UNCHANGED << strategy, steps, data, current_data, results, events, i, process, ret,
                    warm_processes, objs, procs, repertoire, faults, requests >>

\* reload_config: self.master_config = self._load_master_config()
ReloadConfig(w) ==
    /\ rt.kind = "reloading"
    /\ pc[w] = "reload"
    /\ rt' = [rt EXCEPT !.master_config = rt.master_file]
    /\ pc' = [pc EXCEPT ![w] = "reloaded"]
    /\ UNCHANGED << strategy, steps, data, current_data, results, events, i, process, ret,
                    warm_processes, objs, procs, repertoire, faults, requests >>

\* A router holds one manifest while master.json holds another (or cannot be
\* read); thread w1 routes a request and thread w2 reloads.
ReloadInit ==
    /\ strategy = [w \in Callers |-> "cold"]
    /\ steps = [w \in Callers |-> << >>]
    /\ data = [w \in Callers |-> DataFull]
    /\ pc = [w \in Callers |-> IF w = "w1" THEN "route" ELSE "reload"]
    /\ repertoire = PoolResponses
    /\ faults = FALSE
    /\ rt \in [kind : {"reloading"}, master_config : ReloadConfigs,
               master_file : ReloadConfigs,
               user_request : {<< "weather", "today" >>, << "hello", "there" >>},
               used : {<< >>}, best_match : {NoReturn}, result : {NoReturn}]
    /\ InitCommon

ReloadNext ==
    \/ \E w \in Callers : RouteRead(w)
    \/ \E w \in Callers : ReloadConfig(w)

ReloadSpec == ReloadInit /\ [][ReloadNext]_vars

----------------------------------------------------------------------------
(* WorkflowAnalyzer.analyze_query on its own: the analyzer of one manifest   *)
(* is asked to analyse one query.                                            *)

MarketResearchAgent(id) ==
    Extension(id, << << "research" >>, << "market", "research" >> >>, << >>, << >>, << >>, 8)
FormatAgent(id) == Extension(id, << << "format" >> >>, << >>, << >>, << >>, 5)
EvaluateAgent(id) == Extension(id, << << "evaluate" >> >>, << >>, << >>, << >>, 5)

AnalyzerConfigs ==
    {[loaded |-> TRUE, extensions |-> list] : list \in
        {<< MarketResearchAgent("ext_a"), SummaryAgent("ext_b") >>,
         << PlainWeatherAgent("ext_a"), InvestigateAgent("ext_b"),
            FormatAgent("ext_c"), EvaluateAgent("ext_d") >>,
         << EvaluateAgent("ext_d"), FormatAgent("ext_c"),
            InvestigateAgent("ext_b"), PlainWeatherAgent("ext_a") >>,
         << ResearchAgent("ext_a"), SummaryAgent("ext_b") >>,
         << AnalyzeAgent("ext_a"), ReportAgent("ext_b") >>,
         << CryptoAgent("ext_a") >>,
         << >>}}

\* Padded(first, rest, n) is a query of n words: first, then rest n - 1 times
AnalyzerQueries ==
    LET Padded(first, rest, n) == [k \in 1..n |-> IF k = 1 THEN first ELSE rest]
    IN
    {<< "market", "research", "ai" >>,
     << "weather", "investigate", "format", "evaluate" >>,
     << "evaluate", "format", "then", "investigate", "weather" >>,
     << "research", "ai", "then", "summarize", "in", "50", "words" >>,
     << "research", "ai", "and", "also", "summarize" >>,
     << "analyze", "data", "then", "analysis" >>,
     << "btc", "then", "price" >>,
     << "hello", "then", "there" >>,
     << "hello", "in", "50", "words" >>,
     << "weather", "today" >>,
     Padded("weather", "today", 11),
     Padded("weather", "today", 21),
     Padded("research", "today", 21),
     << "research", "ai", "then", "summarize" >> \o Padded("today", "today", 7)}

\* analyze_query in a process whose string hashes give the capability sets
\* one of their iteration orders; required_capabilities is its local variable
Analyze(w) ==
    /\ pc[w] = "analyze"
    /\ rt.kind = "analyzing"
    /\ \E order \in IterationOrders(rt.master_config) :
       \E an \in {WorkflowAnalyzer(rt.master_config, order)} :
           rt' = [rt EXCEPT
                    !.required_capabilities = detect_required_capabilities(an, rt.user_request),
                    !.analysis = analyze_query(an, rt.user_request)]
    /\ pc' = [pc EXCEPT ![w] = "analysed"]
    /\ UNCHANGED << strategy, steps, data, current_data, results, events, i, process, ret,
                    warm_processes, objs, procs, repertoire, faults, requests >>

AnalyzerInit ==
    /\ strategy = [w \in Callers |-> "cold"]
    /\ steps = [w \in Callers |-> << >>]
    /\ data = [w \in Callers |-> DataFull]
    /\ pc = [w \in Callers |-> IF w = "w1" THEN "analyze" ELSE "idle"]
    /\ repertoire = PoolResponses
    /\ faults = FALSE
    /\ rt \in [kind : {"analyzing"}, master_config : AnalyzerConfigs,
               user_request : AnalyzerQueries,
               required_capabilities : {<< >>}, analysis : {NoAnalysis}]
    /\ InitCommon

AnalyzerNext == \E w \in Callers : Analyze(w)

AnalyzerSpec == AnalyzerInit /\ [][AnalyzerNext]_vars

----------------------------------------------------------------------------
(* OptimizedWorkflowExecutor.cleanup after the callers' pipelines returned *)

\* the ExtensionProcess objects cleanup() visits before it reaches the one
\* pooled for ext: warm_processes is iterated in the order its keys were first
\* inserted, which is the order in which the first object of each id was made
VisitedBefore(ext) ==
    LET first(e) == CHOOSE o \in DOMAIN objs :
                        objs[o].ext = e /\ \A q \in 1..(o - 1) : objs[q].ext # e
    IN  {warm_processes[e] : e \in {x \in ExtIds : /\ warm_processes[x] # 0
                                                   /\ first(x) < first(ext)}}

\* cleanup(): for each pooled ExtensionProcess, terminate() its process and
\* wait(timeout=5) for it.  Either every process exits and cleanup returns, or
\* one of them outlives the five seconds and wait raises TimeoutExpired out of
\* cleanup, the objects after it not visited.
Cleanup ==
    /\ rt.kind = "cleanup"
    /\ rt.cleanup = "pending"
    /\ \A w \in Callers : pc[w] = "done"
    /\ \/ /\ procs' = [pid \in DOMAIN procs |->
                          IF \E e \in ExtIds : /\ warm_processes[e] # 0
                                               /\ objs[warm_processes[e]].process = pid
                          THEN [procs[pid] EXCEPT !.state = "dead"]
                          ELSE procs[pid]]
          /\ rt' = [rt EXCEPT !.cleanup = "returned"]
       \/ \E ext \in ExtIds :
             /\ warm_processes[ext] # 0
             /\ is_healthy(warm_processes[ext])
             /\ procs' = [pid \in DOMAIN procs |->
                             IF \E o \in VisitedBefore(ext) : objs[o].process = pid
                             THEN [procs[pid] EXCEPT !.state = "dead"]
                             ELSE procs[pid]]
             /\ rt' = [rt EXCEPT !.cleanup = "raised"]
    /\ UNCHANGED << strategy, steps, data, current_data, results, events, pc, i, process,
                    ret, warm_processes, objs, repertoire, faults, requests >>

\* Two callers run pipelines of up to MaxPoolSteps registered steps
\* concurrently on one OptimizedWorkflowExecutor, whose cleanup() is called
\* once both have returned.
CleanupInit ==
    /\ strategy = [w \in Callers |-> "warm"]
    /\ steps \in [Callers -> SeqsUpTo(Registered, MaxPoolSteps) \ {<< >>}]
    /\ data = [w \in Callers |-> DataFull]
    /\ pc = [w \in Callers |-> "start"]
    /\ repertoire = PoolResponses
    /\ faults = TRUE
    /\ rt = [kind |-> "cleanup", cleanup |-> "pending"]
    /\ InitCommon

CleanupNext ==
    \/ \E w \in Callers : WorkflowStart(w)
    \/ \E w \in Callers : StepStart(w)
    \/ \E w \in Callers : WorkflowComplete(w)
    \/ \E w \in Callers : GetOrCreateProcess(w)
    \/ \E w \in Callers : ExecuteSend(w)
    \/ \E w \in Callers : ExecuteRecv(w)
    \/ \E pid \in DOMAIN procs : ProcessDies(pid)
    \/ \E pid \in DOMAIN procs : WorkerHangs(pid)
    \/ Cleanup

CleanupSpec == CleanupInit /\ [][CleanupNext]_vars

----------------------------------------------------------------------------
(* Properties of execute_sequential_workflow *)

Last(s) == s[Len(s)]

Returned(w) == pc[w] = "done"

\* the ambient fields of a context d are those of the original input
AmbientFromInput(w, d) ==
    \A k \in AmbientKeys :
        k \in DOMAIN d /\ d[k] = Get(data[w], k, AmbientDefault(k))

\* C1: after a successful step the running context, and the final merged
\* context, hold the five ambient fields with the values of the original
\* workflow input, whatever the step's output contained.
C1_AmbientFieldsFromOriginalInput ==
    \A w \in Callers :
        /\ i[w] >= 1 => AmbientFromInput(w, current_data[w])
        /\ (Returned(w) /\ ret[w].success /\ Len(steps[w]) >= 1)
              => AmbientFromInput(w, ret[w].final_result)

StepStartEvents(w) == SelectSeq(events[w], LAMBDA e : e.type = "step_start")

\* C2: when a step fails, the run returns success=false with exactly the
\* results of the steps up to it (all successful but the last), and no later
\* step has a step_start event or a request written to a worker.
C2_FailureAbortsPipeline ==
    \A w \in Callers :
        \A n \in DOMAIN results[w] :
            ~results[w][n].success =>
                /\ n = Len(results[w])
                /\ \A j \in 1 .. (n - 1) : results[w][j].success
                /\ \A j \in 1 .. n : results[w][j].extension_id = steps[w][j]
                /\ Returned(w)
                /\ ~ret[w].success
                /\ ret[w].results = results[w]
                /\ Len(StepStartEvents(w)) = n
                /\ \A j \in 1 .. n : StepStartEvents(w)[j].current_step = j - 1
                /\ \A j \in DOMAIN requests[w] :
                       requests[w][j].workflow_context.step_number <= n

\* a run failed at its second step of three
C2_Witness ==
    \E w \in Callers :
        /\ Returned(w)
        /\ ~ret[w].success
        /\ Len(ret[w].results) = 2
        /\ Len(steps[w]) = 3
        /\ Len(requests[w]) = 2

TerminalEvents(w) ==
    SelectSeq(events[w], LAMBDA e : e.type \in {"workflow_complete", "workflow_error"})

\* C5: every finished run has workflow_start as its first event and exactly
\* one terminal event, which is its last event: workflow_complete after a
\* success, workflow_error after a failure.
C5_OneTerminalEventLast ==
    \A w \in Callers :
        Returned(w) =>
            /\ events[w][1].type = "workflow_start"
            /\ Len(TerminalEvents(w)) = 1
            /\ Last(events[w]).type =
                  (IF ret[w].success THEN "workflow_complete" ELSE "workflow_error")

StepEvents(w) ==
    SelectSeq(events[w], LAMBDA e : e.type \in {"step_start", "step_complete"})

\* the step_status of the latest event about step j
StepStatus(w, j) ==
    LET about == {n \in DOMAIN events[w] :
                     /\ events[w][n].type \in {"step_start", "step_complete"}
                     /\ events[w][n].current_step = j}
    IN  IF about = {} THEN "pending"
        ELSE events[w][CHOOSE n \in about : \A m \in about : m <= n].step_status

StepIndexes(w) == 0 .. (Len(steps[w]) - 1)

StepEventsInOrder(w) ==
    \A n \in DOMAIN StepEvents(w) :
        IF n % 2 = 1
        THEN /\ StepEvents(w)[n].type = "step_start"
             /\ StepEvents(w)[n].current_step = (n - 1) \div 2
        ELSE /\ StepEvents(w)[n].type = "step_complete"
             /\ StepEvents(w)[n].current_step = (n \div 2) - 1

StepStatusMoves(w) ==
    \A j \in StepIndexes(w) :
        StepStatus(w, j)' # StepStatus(w, j) =>
            \/ StepStatus(w, j) = "pending" /\ StepStatus(w, j)' = "running"
            \/ StepStatus(w, j) = "running"
                  /\ StepStatus(w, j)' \in {"completed", "failed"}

\* C9: the steps of a run execute one after another: a step goes pending,
\* running, then completed or failed and never back, at most one step is
\* running, and the step events read start(0), complete(0), start(1), ...
C9_StepsStrictlySequential ==
    /\ [](\A w \in Callers :
             /\ Cardinality({j \in StepIndexes(w) : StepStatus(w, j) = "running"}) <= 1
             /\ StepEventsInOrder(w))
    /\ [][\A w \in Callers : StepStatusMoves(w)]_vars

\* a finished run of three completed steps
C9_Witness ==
    \E w \in Callers :
        /\ Returned(w)
        /\ Len(steps[w]) = 3
        /\ \A j \in StepIndexes(w) : StepStatus(w, j) = "completed"

\* C10: after a 3-step pipeline whose steps all succeeded with outputs free
\* of ambient names, every ambient field of the initial data is in
\* final_result with its initial value.
C10_AmbientSurvivesThreeSteps ==
    \A w \in Callers :
        ( /\ Returned(w)
          /\ ret[w].success
          /\ Len(steps[w]) = 3
          /\ \A j \in DOMAIN ret[w].results :
                 DOMAIN ret[w].results[j].data \cap AmbientKeys = {} )
        => \A k \in AmbientKeys \cap DOMAIN data[w] :
               /\ k \in DOMAIN ret[w].final_result
               /\ ret[w].final_result[k] = data[w][k]

\* such a run whose outputs overwrote the non-ambient query and pageContent
C10_Witness ==
    \E w \in Callers :
        /\ Returned(w)
        /\ ret[w].success
        /\ Len(steps[w]) = 3
        /\ data[w] = DataFull
        /\ \A j \in DOMAIN ret[w].results :
               DOMAIN ret[w].results[j].data \cap AmbientKeys = {}
        /\ \E j \in DOMAIN ret[w].results : ret[w].results[j].data = OutRevised
        /\ ret[w].final_result["browserApiKeys"] = "user_keys"

----------------------------------------------------------------------------
(* Properties of the worker processes *)

\* the callers that wrote a request to pid and have not read its response
InFlight(pid) ==
    {w \in Callers : pc[w] = "readline" /\ objs[process[w]].process = pid}

\* C3: a pooled worker process never has two requests in flight: between a
\* caller's write of its request and its read of the response no other
\* caller writes to or reads from that process.
C3_OneRequestInFlight ==
    \A pid \in DOMAIN procs : Cardinality(InFlight(pid)) <= 1

LiveWarm(e) ==
    {pid \in DOMAIN procs :
        procs[pid].kind = "warm" /\ procs[pid].ext = e /\ procs[pid].state # "dead"}

\* C4: at most one live process started by the warm executor exists per
\* worker identifier, and an ExtensionProcess that was replaced in the pool
\* has no live process.
C4_OneLiveProcessPerWorker ==
    /\ \A e \in ExtIds : Cardinality(LiveWarm(e)) <= 1
    /\ \A o \in DOMAIN objs :
           warm_processes[objs[o].ext] # o => ~Running(objs[o].process)

WaitsOnSilentWorker(w) ==
    /\ pc[w] = "readline"
    /\ objs[process[w]].process # 0
    /\ procs[objs[process[w]].process].state = "hung"

\* C6: a warm step whose worker stays alive but never answers eventually ends
\* failed, with the unresponsive process terminated and the run returned.
C6_SilentWorkerTimesOut ==
    \A w \in Callers :
        WaitsOnSilentWorker(w) ~>
            ( /\ strategy[w] = "warm"
              /\ Returned(w)
              /\ ~ret[w].success
              /\ process[w] \in DOMAIN objs
              /\ ~Running(objs[process[w]].process) )

\* C7: a cold step that ended with the timeout error is failed, and its
\* worker process is not running any more when the StepResult is there.
C7_TimedOutWorkerIsKilled ==
    \A w \in Callers :
        ( /\ strategy[w] = "cold"
          /\ results[w] # << >>
          /\ Last(results[w]).error = "Extension timed out" )
        => /\ ~Last(results[w]).success
           /\ procs[process[w]].state = "dead"

\* _get_or_create_process finds the pooled process of the step's worker dead
\* and goes on to execute
RestartsDeadProcess(w) ==
    /\ pc[w] = "step"
    /\ strategy[w] = "warm"
    /\ warm_processes[CurrentExt(w)] # 0
    /\ ~is_healthy(warm_processes[CurrentExt(w)])
    /\ pc'[w] = "execute"

\* C8: when the pooled process of a worker died between two calls, the next
\* step for it gets a fresh ExtensionProcess as a first call does, and the
\* pool entries, ExtensionProcess objects and processes of every other worker
\* are left as they were.
C8_RestartLeavesOthersAlone ==
    [][\A w \in Callers :
          RestartsDeadProcess(w) =>
              LET ext == CurrentExt(w)
                  new == warm_processes'[ext]
              IN  /\ new \notin DOMAIN objs
                  /\ new \in DOMAIN objs'
                  /\ process'[w] = new
                  /\ objs'[new].ext = ext
                  /\ ~objs'[new].is_busy
                  /\ objs'[new].process # 0 =>
                        /\ objs'[new].process \notin DOMAIN procs
                        /\ procs'[objs'[new].process] =
                              [ext |-> ext, state |-> "alive", kind |-> "warm"]
                  /\ \A e \in ExtIds \ {ext} : warm_processes'[e] = warm_processes[e]
                  /\ \A o \in DOMAIN objs : objs'[o] = objs[o]
                  /\ \A p \in DOMAIN procs : procs'[p] = procs[p]
      ]_vars

\* a run ext_a, ext_b, ext_a whose first ext_a process died before the third
\* step, which then succeeded on a fresh process while ext_b's stayed pooled
C8_Witness ==
    \E w \in Callers :
        /\ Returned(w)
        /\ ret[w].success
        /\ steps[w] = << "ext_a", "ext_b", "ext_a" >>
        /\ Len(objs) = 3
        /\ warm_processes["ext_a"] = 3
        /\ warm_processes["ext_b"] = 2
        /\ procs[objs[1].process].state = "dead"
        /\ procs[objs[2].process].state = "alive"
        /\ ret[w].results[3].data = OutPlain

----------------------------------------------------------------------------
(* Properties of the requests written to the workers *)

\* the requests written for step j (1-based) of caller w's pipeline
RequestsOfStep(w, j) ==
    { k \in DOMAIN requests[w] : requests[w][k].workflow_context.step_number = j }

\* C11: if step j succeeded and its output holds a field query, the request
\* written for step j+1 carries data.query equal to that revised value.
C11_RevisedQueryReachesNextStep ==
    \A w \in Callers :
        \A j \in DOMAIN results[w] :
            (results[w][j].success /\ "query" \in DOMAIN results[w][j].data)
            => \A k \in RequestsOfStep(w, j + 1) :
                   requests[w][k].data.query = results[w][j].data["query"]

\* a second step was asked with the query the first step returned, which is
\* not the query of the workflow input
C11_Witness ==
    \E w \in Callers :
        /\ Len(results[w]) >= 1
        /\ results[w][1].success
        /\ results[w][1].data = OutRevised
        /\ "query" \in DOMAIN data[w]
        /\ data[w]["query"] # OutRevised["query"]
        /\ \E k \in RequestsOfStep(w, 2) :
               requests[w][k].data.query = OutRevised["query"]

----------------------------------------------------------------------------
(* Properties of the cold strategy's failure handling *)

\* the worker exited with a non-zero code, wrote nothing, or wrote something
\* json.loads or the response reader rejects
BadWorkerOutcome(returncode, stdout) ==
    \/ returncode # 0
    \/ stdout.kind \in {"empty", "garbage", "text_and_json", "json_non_object"}

\* error texts _run_extension and _execute_step give to those outcomes
BadOutcomeErrors ==
    {"Extension failed: stderr", "Extension returned empty output",
     "Invalid JSON output", "object has no attribute get"}

\* the running context caller w holds after j steps succeeded
ContextAfter(w, j) ==
    IF j = 0 THEN data[w] ELSE MergeStepResult(data[w], results[w][j].data)

\* C12: in the cold strategy a worker that exits non-zero, writes nothing or
\* writes output that does not parse yields success=false, empty data and an
\* error text, also when its output held a success:true response; the failed
\* step leaves the running context as the step before it left it.
C12_BadOutcomeIsFailure ==
    /\ \A ext \in Registered, returncode \in {0, 1}, stdout \in ColdStdouts :
          BadWorkerOutcome(returncode, stdout)
          => LET sr == ColdStepResult(ext, returncode, stdout)
             IN  /\ sr.success = FALSE
                 /\ sr.data = EmptyDict
                 /\ sr.error \in BadOutcomeErrors
    /\ \A w \in Callers :
          \A j \in DOMAIN results[w] :
              (strategy[w] = "cold" /\ results[w][j].error \in BadOutcomeErrors)
              => /\ results[w][j].success = FALSE
                 /\ results[w][j].data = EmptyDict
                 /\ j = Len(results[w])
                 /\ current_data[w] = ContextAfter(w, j - 1)

\* a cold run whose first step revised the query and whose second worker
\* exited non-zero or wrote unparsable output, while success:true responses
\* were among the outputs the worker could have written
C12_Witness ==
    \E w \in Callers :
        /\ strategy[w] = "cold"
        /\ Returned(w)
        /\ Len(results[w]) = 2
        /\ results[w][1].data = OutRevised
        /\ results[w][2].error \in {"Extension failed: stderr", "Invalid JSON output"}
        /\ current_data[w]["query"] = OutRevised["query"]
        /\ \E r \in repertoire :
               /\ r.success
               /\ BadWorkerOutcome(1, [kind |-> "json", value |-> r])
               /\ BadWorkerOutcome(0, [kind |-> "text_and_json", value |-> r])

----------------------------------------------------------------------------
(* Properties of SmartExtensionRouter.route_request *)

\* the router planned a pipeline for the request it was given
PlannedWorkflow ==
    /\ rt.kind = "smart"
    /\ rt.analysis # NoAnalysis
    /\ rt.analysis.requires_workflow

\* C13: route_request with routing_only=true on a query whose analysis
\* requires a pipeline returns the planned pipeline and never reaches the
\* executor: no worker process is started, no request is written and no
\* progress event is emitted.
C13_RoutingOnlyReturnsPlan ==
    (PlannedWorkflow /\ rt.routing_only) =>
        /\ pc["w1"] = "routed"
        /\ rt.result.type = "workflow"
        /\ rt.result.success
        /\ rt.result.workflow_info.pipeline = rt.analysis.suggested_pipeline
        /\ procs = << >>
        /\ \A w \in Callers : events[w] = << >> /\ requests[w] = << >> /\ process[w] = 0

C13_Witness ==
    /\ PlannedWorkflow
    /\ rt.routing_only
    /\ pc["w1"] = "routed"
    /\ Len(rt.result.workflow_info.pipeline) = 2

\* the router answered a request whose analysis asks for no pipeline
RoutedSingleWorker ==
    /\ rt.kind = "smart"
    /\ ~rt.routing_only
    /\ rt.analysis # NoAnalysis
    /\ ~rt.analysis.requires_workflow
    /\ pc["w1"] = "routed"

\* the types of the events a run has emitted
EventTypes(w) == [n \in DOMAIN events[w] |-> events[w][n].type]

\* C14: when the analysis asks for no pipeline and routing_only is false, the
\* selected worker has been run through the executor as a one-step pipeline
\* by the time route_request returns: one request was written to it and the
\* events are workflow_start, step_start, step_complete and a terminal event.
C14_SingleWorkerRunsAsOneStep ==
    RoutedSingleWorker =>
        /\ Len(EventTypes("w1")) = 4
        /\ SubSeq(EventTypes("w1"), 1, 3) = << "workflow_start", "step_start", "step_complete" >>
        /\ EventTypes("w1")[4] \in {"workflow_complete", "workflow_error"}
        /\ rt.result.extension_id \in Registered => Len(requests["w1"]) = 1

\* the manifest gives the router nothing to choose from
NoUsableManifest ==
    \/ ~rt.master_config.loaded
    \/ enabled_extensions(rt.master_config) = << >>

\* C15: when master.json is missing or unreadable, or lists no enabled
\* extension, what route_request returns names no extension to run: neither
\* a default nor a placeholder identifier.
C15_NoWorkerWithoutManifest ==
    (pc["w1"] = "routed" /\ NoUsableManifest) =>
        "extension_id" \notin DOMAIN rt.result

----------------------------------------------------------------------------
(* Properties of WorkflowAnalyzer.analyze_query *)

\* the router has analysed a request that holds the connective "then"
AnalysedThen ==
    /\ rt.kind = "smart"
    /\ rt.analysis # NoAnalysis
    /\ "then" \in Range(Lower(rt.user_request))

\* the keywords of enabled extensions that the request mentions
MentionedKeywords ==
    {kw \in UNION {{Lower(e.keywords[k]) : k \in DOMAIN e.keywords} :
                      e \in Range(enabled_extensions(rt.master_config))} :
        In(kw, Lower(rt.user_request))}

\* two keywords that share no word and do not contain one another
NoOverlap(k1, k2) ==
    /\ k1 # k2
    /\ Range(k1) \cap Range(k2) = {}
    /\ ~In(k1, k2) /\ ~In(k2, k1)

NoRepeats(s) == \A j, k \in DOMAIN s : s[j] = s[k] => j = k

PlannedClass(id) == FlowClass(extension_capabilities(rt.master_config)[id])

\* the router has analysed a request that carries a word-count constraint
AnalysedWordLimit ==
    /\ rt.kind = "smart"
    /\ rt.analysis # NoAnalysis
    /\ HasConstraintPattern(Lower(rt.user_request))

\* C17: whatever the order of the manifest, when the request carries a
\* word-count constraint, every summarize-class worker of the planned
\* pipeline comes strictly after every research-class worker of it.
C17_SummarizeAfterResearch ==
    AnalysedWordLimit =>
        \A j, k \in DOMAIN rt.analysis.suggested_pipeline :
            (/\ PlannedClass(rt.analysis.suggested_pipeline[j]) = "research"
             /\ PlannedClass(rt.analysis.suggested_pipeline[k]) = "summary") => j < k

\* the summarize-class capability was detected first and its worker runs last
C17_Witness ==
    /\ AnalysedWordLimit
    /\ rt.analysis.primary_intent = << "explain" >>
    /\ Len(rt.analysis.suggested_pipeline) = 2
    /\ PlannedClass(rt.analysis.suggested_pipeline[1]) = "research"
    /\ PlannedClass(rt.analysis.suggested_pipeline[2]) = "summary"
    /\ rt.master_config.extensions[1].id = rt.analysis.suggested_pipeline[2]

\* C18: the analysis of a request does not depend on the order in which the
\* capability sets are iterated: under every iteration order analyze_query
\* returns the value the router got (same primary and secondary capabilities
\* in the same order, same pipeline, complexity, confidence and reasoning).
C18_AnalysisIndependentOfIteration ==
    (rt.kind = "smart" /\ rt.analysis # NoAnalysis) =>
        \A order \in IterationOrders(rt.master_config) :
            analyze_query(WorkflowAnalyzer(rt.master_config, order), rt.user_request)
                = rt.analysis

----------------------------------------------------------------------------
(* Properties of the steps the router builds *)

\* the numbers N of the places "in N words" of the request
WordLimits ==
    {IntOf[rt.user_request[k + 1]] :
        k \in {j \in 1..(Len(rt.user_request) - 2) :
                  /\ Lower(rt.user_request)[j] = "in"
                  /\ rt.user_request[j + 1] \in DOMAIN IntOf
                  /\ Lower(rt.user_request)[j + 2] \in {"word", "words"}}}

\* the router built the steps of a pipeline for a request with "in N words"
BuiltStepsWithWordLimit ==
    /\ rt.kind = "smart"
    /\ rt.steps # << >>
    /\ WordLimits # {}

\* only the last step has parameters; the first step reads the user query
\* and every later one the previous step
StepsShape ==
    /\ \A k \in 1..(Len(rt.steps) - 1) : rt.steps[k].parameters = EmptyDict
    /\ \A k \in DOMAIN rt.steps :
          rt.steps[k].input_source = IF k = 1 THEN "user_query" ELSE "previous_step"

\* C19 as stated: for a request with "in N words" the last step has
\* max_words = N and style = "concise", the earlier steps have no parameters,
\* the first step reads user_query and the later ones previous_step.
C19_LastStepConcise ==
    BuiltStepsWithWordLimit =>
        /\ Get(rt.steps[Len(rt.steps)].parameters, "max_words", 0) \in WordLimits
        /\ Get(rt.steps[Len(rt.steps)].parameters, "style", "") = "concise"
        /\ StepsShape

\* the style _extract_constraints gives a request with a word limit
StyleOfRequest ==
    IF In(<< "simple" >>, Lower(rt.user_request)) \/ In(<< "explain" >>, Lower(rt.user_request))
    THEN "simple"
    ELSE IF \/ In(<< "detailed" >>, Lower(rt.user_request))
            \/ In(<< "comprehensive" >>, Lower(rt.user_request))
    THEN "detailed"
    ELSE "concise"

\* C19 amended: for a request with "in N words" the last step has
\* max_words = N and the style "simple" when the request says simple or
\* explain, "detailed" when it says detailed or comprehensive, "concise"
\* otherwise; the earlier steps have no parameters, the first step reads
\* user_query and the later ones previous_step.
C19_LastStepCarriesLimitAndStyle ==
    BuiltStepsWithWordLimit =>
        /\ Get(rt.steps[Len(rt.steps)].parameters, "max_words", 0) \in WordLimits
        /\ Get(rt.steps[Len(rt.steps)].parameters, "style", "") = StyleOfRequest
        /\ StepsShape

C19_Witness ==
    /\ BuiltStepsWithWordLimit
    /\ Len(rt.steps) = 2
    /\ rt.steps[2].parameters = [max_words |-> 50, style |-> "concise"]
    /\ rt.steps[1].parameters = EmptyDict

----------------------------------------------------------------------------
(* Properties of single-extension routing *)

\* the keywords of a manifest entry, in lower case
KeywordsOf(ext) == {Lower(ext.keywords[k]) : k \in DOMAIN ext.keywords}

\* every entry of the manifest is enabled and no keyword of one entry shares
\* a word with, or is contained in, a keyword of another
DisjointKeywordManifest ==
    /\ rt.master_config.loaded
    /\ rt.master_config.extensions # << >>
    /\ \A j, k \in DOMAIN rt.master_config.extensions :
          /\ rt.master_config.extensions[j].enabled
          /\ j # k => \A a \in KeywordsOf(rt.master_config.extensions[j]),
                         b \in KeywordsOf(rt.master_config.extensions[k]) : NoOverlap(a, b)

\* the request mentions one keyword, the k-th of the j-th entry, and none else
MentionsOnly(j, k) ==
    /\ In(Lower(rt.master_config.extensions[j].keywords[k]), Lower(rt.user_request))
    /\ \A n \in DOMAIN rt.master_config.extensions :
          \A m \in DOMAIN rt.master_config.extensions[n].keywords :
              In(Lower(rt.master_config.extensions[n].keywords[m]), Lower(rt.user_request))
                  => n = j /\ m = k

\* C20: with a manifest of enabled workers whose keywords do not overlap, a
\* request that mentions the keyword of exactly one worker is routed to that
\* worker and the matched-keyword list holds that keyword and nothing else.
C20_UniqueKeywordRoutesToItsWorker ==
    (/\ pc["w1"] = "routed"
     /\ "extension_id" \in DOMAIN rt.result
     /\ DisjointKeywordManifest) =>
        \A j \in DOMAIN rt.master_config.extensions :
            \A k \in DOMAIN rt.master_config.extensions[j].keywords :
                MentionsOnly(j, k) =>
                    /\ rt.result.extension_id = rt.master_config.extensions[j].id
                    /\ rt.result.matched_keywords = rt.master_config.extensions[j].keywords[k]

----------------------------------------------------------------------------
(* Properties of ExtensionRouter under reload_config *)

\* C21: a route_request that runs while reload_config runs takes every value
\* it uses from one manifest, the old one or the new one: it never fails on
\* an absent table and all its evaluations of master_config gave one value.
C21_RouteUsesOneSnapshot ==
    (rt.kind = "reloading" /\ pc["w1"] = "routed") =>
        /\ rt.result # Raised
        /\ \A j, k \in DOMAIN rt.used : rt.used[j] = rt.used[k]

----------------------------------------------------------------------------
(* Properties of the executor SmartExtensionRouter constructs *)

\* C22: a SmartExtensionRouter with workflow support runs the pipelines it
\* plans through the warm-pooled OptimizedWorkflowExecutor, never through the
\* cold WorkflowExecutor that starts one process per step.
C22_PipelinesRunOnOptimizedExecutor ==
    (rt.kind = "smart" /\ rt.steps # << >> /\ pc["w1"] # "route") =>
        strategy["w1"] = "warm"

----------------------------------------------------------------------------
(* Properties of WorkflowAnalyzer.analyze_query on larger manifests *)

Analysed == rt.kind = "analyzing" /\ pc["w1"] = "analysed"

\* how many of the capabilities hold one of the fragments
FamilySize(capabilities, fragments) ==
    Cardinality({k \in DOMAIN capabilities :
                    \E f \in fragments : In(<< f >>, capabilities[k])})

\* C23: the list redundancy filtering returns holds at most one capability
\* with "research" in it, at most one with "summariz" or "summary" in it and
\* at most one with "analyz" or "analysis" in it.
C23_OneCapabilityPerFamily ==
    Analysed =>
        /\ FamilySize(rt.required_capabilities, {"research"}) <= 1
        /\ FamilySize(rt.required_capabilities, {"summariz", "summary"}) <= 1
        /\ FamilySize(rt.required_capabilities, {"analyz", "analysis"}) <= 1

\* the class _estimate_complexity describes, from the query and the number of
\* capabilities that were detected
ComplexityOfTotal(capabilities, query) ==
    LET total == Len(capabilities)
                 + (IF Len(query) > 20 THEN 2 ELSE IF Len(query) > 10 THEN 1 ELSE 0)
                 + (IF HasParallelConnector(Lower(query)) THEN 2 ELSE 0)
    IN  IF total <= 2 THEN "simple" ELSE IF total <= 4 THEN "moderate" ELSE "complex"

\* C24 as stated: for every query, with or without a pipeline, the complexity
\* is the class of detected capabilities + length bonus + parallel bonus.
C24_ComplexityOfEveryQuery ==
    Analysed =>
        rt.analysis.complexity = ComplexityOfTotal(rt.required_capabilities, rt.user_request)

\* C24: when a pipeline is required the complexity is the class of detected
\* capabilities + length bonus + parallel bonus; when none is required the
\* complexity is simple whatever the total.
C24_ComplexityOfWorkflowQueries ==
    Analysed =>
        rt.analysis.complexity =
            IF rt.analysis.requires_workflow
            THEN ComplexityOfTotal(rt.required_capabilities, rt.user_request)
            ELSE "simple"

\* a pipeline is required for a query of more than 10 words whose total is
\* above 2
C24_Witness ==
    /\ Analysed
    /\ rt.analysis.requires_workflow
    /\ rt.analysis.complexity = "moderate"
    /\ Len(rt.user_request) > 10

\* the workers _plan_dynamic_workflow found, one per capability, without
\* their repeats: the pipeline before _optimize_pipeline_flow orders it
PlannedOrder ==
    Deduplicate(Flatten([k \in DOMAIN rt.analysis.reasoning[2] |->
                            rt.analysis.reasoning[2][k][2]]))

\* the analysis ordered a pipeline of several workers by type compatibility
OrderedByCompatibility ==
    /\ Analysed
    /\ rt.analysis.requires_workflow
    /\ ~HasConstraintPattern(Lower(rt.user_request))
    /\ Len(PlannedOrder) > 1

\* the workers placed after position p, in the order they were planned in
UnplacedAfter(p) ==
    SelectSeq(PlannedOrder,
              LAMBDA id : \E k \in (p + 1)..Len(rt.analysis.suggested_pipeline) :
                              rt.analysis.suggested_pipeline[k] = id)

\* after position p was placed, no unplaced worker takes an output type of
\* the worker at p and none accepts general input
NoneCompatibleAfter(p) ==
    \A k \in (p + 1)..Len(rt.analysis.suggested_pipeline) :
        Compatibility(
            extension_capabilities(rt.master_config)[
                rt.analysis.suggested_pipeline[p]].output_types,
            extension_capabilities(rt.master_config)[
                rt.analysis.suggested_pipeline[k]]) = 0

\* C25 as stated: once no unplaced worker is compatible with the last placed
\* one, all the unplaced workers follow in the order they were planned in.
C25_AllRemainingInPlannedOrder ==
    OrderedByCompatibility =>
        \A p \in 1..(Len(rt.analysis.suggested_pipeline) - 1) :
            NoneCompatibleAfter(p) =>
                SubSeq(rt.analysis.suggested_pipeline, p + 1,
                       Len(rt.analysis.suggested_pipeline)) = UnplacedAfter(p)

\* C25: once no unplaced worker is compatible with the last placed one, the
\* next worker placed is the first unplaced one in planned order (the workers
\* after it are again chosen by compatibility with it).
C25_FirstRemainingIsNext ==
    OrderedByCompatibility =>
        \A p \in 1..(Len(rt.analysis.suggested_pipeline) - 1) :
            NoneCompatibleAfter(p) =>
                rt.analysis.suggested_pipeline[p + 1] = UnplacedAfter(p)[1]

\* several workers were unplaced when none was compatible with the last one
C25_Witness ==
    /\ OrderedByCompatibility
    /\ \E p \in 1..(Len(rt.analysis.suggested_pipeline) - 2) : NoneCompatibleAfter(p)

\* the workers _plan_dynamic_workflow found, one per capability, repeats kept
PlannedWorkers ==
    Flatten([k \in DOMAIN rt.analysis.reasoning[2] |-> rt.analysis.reasoning[2][k][2]])

\* C26: suggested_pipeline holds no worker twice, and after a pipeline was
\* planned and ordered (by either rule) it holds exactly the workers that
\* were found for the capabilities: none dropped, none added.
C26_PipelineIsPermutationWithoutRepeats ==
    Analysed =>
        /\ NoRepeats(rt.analysis.suggested_pipeline)
        /\ rt.analysis.requires_workflow =>
               Range(rt.analysis.suggested_pipeline) = Range(PlannedWorkers)

\* one worker was found for two capabilities and the pipeline was ordered
C26_Witness ==
    /\ Analysed
    /\ rt.analysis.requires_workflow
    /\ Len(PlannedWorkers) > Len(rt.analysis.suggested_pipeline)
    /\ rt.analysis.suggested_pipeline # << >>

----------------------------------------------------------------------------
(* Properties of the pipelines SmartExtensionRouter hands to the executor *)

\* C27: an analysis that requires a workflow suggests a pipeline of at least
\* one worker, so that execute_sequential_workflow is never called with no
\* step; also when the request has a connective or a word limit but mentions
\* no capability.
C27_WorkflowHasSteps ==
    /\ (rt.kind = "smart" /\ "requires_workflow" \in DOMAIN rt.analysis
        /\ rt.analysis.requires_workflow) => rt.analysis.suggested_pipeline # << >>
    /\ (rt.kind = "smart" /\ pc["w1"] \in {"start", "step", "done"}) => steps["w1"] # << >>

----------------------------------------------------------------------------
(* Properties of the running context of execute_sequential_workflow *)

\* the fields of the context d are the five ambient fields and the fields of
\* the step output out, the latter with the values of out
AmbientPlusOutput(d, out) ==
    /\ DOMAIN d = AmbientKeys \cup DOMAIN out
    /\ \A k \in DOMAIN out : d[k] = out[k]

\* C28: after a successful step the running context holds exactly the five
\* ambient fields and the fields of that step's output; a field query or
\* pageContent the step did not return is absent from the context, from the
\* request written for the next step (which carries the default of an absent
\* field) and from final_result.
C28_ContextIsAmbientPlusOutput ==
    \A w \in Callers :
        \A j \in DOMAIN results[w] :
            results[w][j].success =>
                /\ (j = Len(results[w]) /\ pc[w] \in {"loop", "done"})
                       => AmbientPlusOutput(current_data[w], results[w][j].data)
                /\ \A k \in RequestsOfStep(w, j + 1) :
                       \A f \in {"query", "pageContent"} \ DOMAIN results[w][j].data :
                           requests[w][k].data[f] \in {"", "None"}
                /\ (j = Len(results[w]) /\ Returned(w) /\ ret[w].success)
                       => AmbientPlusOutput(ret[w].final_result, results[w][j].data)

\* a run on an input with query and pageContent returned after two steps whose
\* outputs held neither: the second step was asked without them and
\* final_result holds neither
C28_Witness ==
    \E w \in Callers :
        /\ Returned(w) /\ ret[w].success
        /\ Len(results[w]) = 2
        /\ data[w] = DataFull
        /\ results[w][1].data = OutPlain
        /\ results[w][2].data = OutPlain
        /\ RequestsOfStep(w, 2) # {}
        /\ {"query", "pageContent"} \cap DOMAIN ret[w].final_result = {}

----------------------------------------------------------------------------
(* Properties of the failure SmartExtensionRouter reports *)

\* route_request returned the failure of a pipeline
RoutedFailure ==
    /\ rt.kind = "smart"
    /\ pc["w1"] = "routed"
    /\ "workflow_info" \in DOMAIN rt.result
    /\ ~rt.result.success

\* C29: when a pipeline fails, failed_at_step of the router's result and
\* failed_at_step of the executor's workflow_error event are the same step
\* index, and the error text names the failing worker and its error.
C29_SameFailedStepInResultAndEvent ==
    RoutedFailure =>
        /\ \E k \in DOMAIN events["w1"] :
               /\ events["w1"][k].type = "workflow_error"
               /\ events["w1"][k].failed_at_step = rt.result.workflow_info.failed_at_step
        /\ rt.result.error = WorkflowError(Last(results["w1"]).extension_id,
                                           Last(results["w1"]).error)

----------------------------------------------------------------------------
(* Properties of OptimizedWorkflowExecutor.cleanup *)

\* C30: after cleanup() returned, no process the executor started is alive,
\* the processes that were replaced in the pool included.
C30_NoProcessAliveAfterCleanup ==
    (rt.kind = "cleanup" /\ rt.cleanup = "returned") =>
        \A pid \in DOMAIN procs : procs[pid].kind = "warm" => procs[pid].state = "dead"

====
